---- MODULE Spec2Model ----
(***************************************************************************)
(* prettylogs: the leveled logger of src/src/logFunction.ts (LoggerImpl    *)
(* and LogBuffer), with the Node.js collaborators it drives: fs.WriteStream *)
(* (asynchronous open / write / finish), the timer queue and the file       *)
(* system (rename keeps the inode, so an open descriptor follows the file). *)
(* One log line is identified by the number of the log call that made it    *)
(* and counts one byte; the lines of an earlier run have the number 0.      *)
(***************************************************************************)
EXTENDS Integers, Sequences, FiniteSets, TLC

VARIABLES
  config,           \* LoggerImpl.config
  files,            \* the inodes of the log directory
  streams,          \* every fs.WriteStream created so far
  buffers,          \* every LogBuffer created so far
  fileWriteStream,  \* LoggerImpl.fileWriteStream (0: null), an index of streams
  logBuffer,        \* LoggerImpl.logBuffer (0: null), an index of buffers
  console,          \* the lines printed by console.log, in order
  clock,            \* Date.now(), in milliseconds
  closes,           \* the close() calls made so far and where each one stands
  flushes,          \* the flush() calls made so far and where each one stands
  hist,             \* history: what each log call did
  rots,             \* history: what each rotation did
  dropped,          \* history: the lines that were discarded
  uncaught,         \* history: a stream emitted 'error' (write after end)
  sinceRot,         \* history: lines handed to writeToFile since the last rotation
  children,         \* the LoggerImpl objects made by child(), each with its own fields
  exitCode,         \* 0 while the process runs, else the code process.exit was given
  lastAnswer,       \* what the last isLevelEnabled(level) returned
  stderr,           \* the diagnostics written to process.stderr, in order
  rootNamespace,    \* LoggerImpl.namespace of the root logger ("": undefined)
  customFormatter   \* LoggerImpl.customFormatter of the root logger

vars == <<config, files, streams, buffers, fileWriteStream, logBuffer, console,
          clock, closes, flushes, hist, rots, dropped, uncaught, sinceRot,
          children, exitCode, lastAnswer, stderr, rootNamespace, customFormatter>>

\* what the operations of one logger object leave alone
aside == <<children, exitCode, lastAnswer, rootNamespace, customFormatter>>

(* ------------------------------ bounds --------------------------------- *)
MaxCalls == 3
MaxRotations == 2
MaxClock == 2
MaxCloses == 2
MaxFlushes == 1
MaxSize == 2
FormatCalls == 2
ServiceCalls == 2
MaxObjs == 2
MaxFields == 1
CircularCalls == 2
EnvironmentCalls == 2
FrameCalls == 3
ClearCalls == 3
GateCalls == 1
CloseCalls == 2
MaxChildren == 2
ChildCalls == 1
SizeCalls == 3
FailCalls == 3
TwoFlushes == 2

(* ------------------------------ levels --------------------------------- *)
Levels == {"TRACE", "DEBUG", "INFO", "WARN", "ERROR", "FATAL", "SUCCESS"}
Modes == {"silent", "normal", "verbose", "debug"}

\* LOG_LEVELS with SUCCESS ranked with WARN
LOG_LEVELS_SuccessAsWarn ==
  [TRACE |-> 0, DEBUG |-> 1, INFO |-> 2, WARN |-> 3, ERROR |-> 4, FATAL |-> 5,
   SUCCESS |-> 3]

LOG_LEVELS ==
  [TRACE |-> 0, DEBUG |-> 1, INFO |-> 2, WARN |-> 3, ERROR |-> 4, FATAL |-> 5,
   SUCCESS |-> 2]

\* shouldLog without the test of the allow-set
shouldLog_NoAllowSet(cfg, level) ==
  IF cfg.mode = "silent" THEN FALSE
  ELSE IF cfg.mode \in {"verbose", "debug"} /\ level = "TRACE" THEN TRUE
  ELSE LOG_LEVELS[level] >= LOG_LEVELS[cfg.minLevel]

shouldLog(cfg, level) ==
  IF cfg.mode = "silent" THEN FALSE
  ELSE IF level \notin cfg.levels THEN FALSE
  ELSE IF cfg.mode \in {"verbose", "debug"} /\ level = "TRACE" THEN TRUE
  ELSE LOG_LEVELS[level] >= LOG_LEVELS[cfg.minLevel]

\* shouldLogForMode letting every level through in mode normal
shouldLogForMode_AnyLevel(cfg, level) ==
  CASE cfg.mode = "silent" -> FALSE
    [] cfg.mode = "normal" -> TRUE
    [] OTHER -> TRUE

shouldLogForMode(cfg, level) ==
  CASE cfg.mode = "silent" -> FALSE
    [] cfg.mode = "normal" -> level # "TRACE"
    [] OTHER -> TRUE

(* ------------------------------ config --------------------------------- *)
LogPath == "app.log"
OtherPath == "b.log"
ErrorsPath == "app-errors.log"

getDefaultConfig ==
  [levels |-> Levels, minLevel |-> "DEBUG", mode |-> "normal", logFile |-> "",
   maxFileSize |-> 10 * 1024 * 1024, maxFiles |-> 5, async |-> FALSE,
   bufferSize |-> 100, disableFileLogging |-> FALSE,
   timestamps |-> FALSE, colorize |-> TRUE, logFormat |-> "text",
   environment |-> "development"]

\* a JavaScript number is an integer here or NaN, and every comparison with NaN is false
NaN == -1000000
jsLE(a, b) == a # NaN /\ b # NaN /\ a <= b
jsGE(a, b) == a # NaN /\ b # NaN /\ a >= b
jsGT(a, b) == a # NaN /\ b # NaN /\ a > b

\* { ...defaultConfig, ...userConfig }, then the validation of the numbers and of minLevel
mergeConfig(defaultConfig, userConfig) ==
  LET merged == [k \in DOMAIN defaultConfig |->
                   IF k \in DOMAIN userConfig THEN userConfig[k] ELSE defaultConfig[k]]
  IN [merged EXCEPT
        !.maxFileSize = IF jsLE(@, 0) THEN defaultConfig.maxFileSize ELSE @,
        !.bufferSize = IF jsLE(@, 0) THEN defaultConfig.bufferSize ELSE @,
        !.maxFiles = IF jsLE(@, 0) THEN defaultConfig.maxFiles ELSE @,
        !.minLevel = IF @ \notin Levels THEN defaultConfig.minLevel ELSE @]

(* ---------------------------- file system ------------------------------ *)
Range(s) == {s[i] : i \in DOMAIN s}

RECURSIVE Flatten(_)
Flatten(ss) == IF ss = <<>> THEN <<>> ELSE Head(ss) \o Flatten(Tail(ss))

LiveName(path) == [path |-> path, ts |-> 0]
ArchiveName(path, t) == [path |-> path, ts |-> t]

FileAt(fs, name) ==
  IF \E i \in DOMAIN fs : fs[i].linked /\ fs[i].name = name
  THEN CHOOSE i \in DOMAIN fs : fs[i].linked /\ fs[i].name = name
  ELSE 0

existsSync(fs, path) == FileAt(fs, LiveName(path)) # 0

NewFile(name, t) == [name |-> name, linked |-> TRUE, content |-> <<>>, mtime |-> t]

\* fs.unlinkSync, and the inode a rename replaces: the name is gone, the data with it
Unlinked(f) == [f EXCEPT !.linked = FALSE, !.content = <<>>, !.mtime = 0]

\* a write on a descriptor: the inode grows and its mtime is now
AppendTo(fs, i, lines, t) ==
  IF fs[i].linked
  THEN [fs EXCEPT ![i].content = @ \o lines, ![i].mtime = t]
  ELSE fs

\* fs.appendFileSync(path, content): creates the file when there is none
appendFileSync(w, path, lines) ==
  LET i == FileAt(w.files, LiveName(path))
  IN IF i # 0
     THEN [w EXCEPT !.files = AppendTo(@, i, lines, w.now)]
     ELSE [w EXCEPT !.files = Append(@, [NewFile(LiveName(path), w.now)
                                           EXCEPT !.content = lines])]

(* ----------------------------- WriteStream ----------------------------- *)
NewStream(path) ==
  [path |-> path, opened |-> FALSE, ending |-> FALSE, destroyed |-> FALSE,
   pending |-> <<>>, fd |-> 0]

\* stream.write(chunk): queued; after end() it is refused with an 'error' event
streamWrite(w, s, chunk) ==
  IF w.streams[s].destroyed
  THEN [w EXCEPT !.dropped = @ \cup Range(chunk)]
  ELSE IF w.streams[s].ending
  THEN [w EXCEPT !.dropped = @ \cup Range(chunk), !.uncaught = TRUE]
  ELSE [w EXCEPT !.streams[s].pending = Append(@, chunk)]

streamEnd(w, s) == [w EXCEPT !.streams[s].ending = TRUE]

\* stream.destroy(): what is still queued is never written
streamDestroy(w, s) ==
  [w EXCEPT !.streams[s].destroyed = TRUE,
            !.streams[s].pending = <<>>,
            !.dropped = @ \cup Range(Flatten(w.streams[s].pending))]

(* ------------------------------ LogBuffer ------------------------------ *)
NewBuffer(maxSize, ws) ==
  [buffer |-> <<>>, timer |-> "null", writeStream |-> ws, maxSize |-> maxSize]

\* flush writing the queue without emptying it
LogBufferFlush_KeepsQueue(w, b) ==
  IF w.buffers[b].buffer = <<>> THEN w
  ELSE LET ws == w.buffers[b].writeStream
           w1 == IF ws # 0 /\ ~w.streams[ws].destroyed
                 THEN streamWrite(w, ws, w.buffers[b].buffer)
                 ELSE [w EXCEPT !.dropped = @ \cup Range(w.buffers[b].buffer)]
       IN [w1 EXCEPT !.buffers[b].timer = "null"]

LogBufferFlush(w, b) ==
  IF w.buffers[b].buffer = <<>> THEN w
  ELSE LET ws == w.buffers[b].writeStream
           w1 == IF ws # 0 /\ ~w.streams[ws].destroyed
                 THEN streamWrite(w, ws, w.buffers[b].buffer)
                 ELSE [w EXCEPT !.dropped = @ \cup Range(w.buffers[b].buffer)]
       IN [w1 EXCEPT !.buffers[b].buffer = <<>>, !.buffers[b].timer = "null"]

\* add flushing only once the queue is longer than maxSize
LogBufferAdd_Late(w, b, id) ==
  LET w1 == [w EXCEPT !.buffers[b].buffer = Append(@, id)]
  IN IF jsGT(Len(w1.buffers[b].buffer), w1.buffers[b].maxSize)
     THEN LogBufferFlush(w1, b)
     ELSE IF w1.buffers[b].timer = "null"
     THEN [w1 EXCEPT !.buffers[b].timer = "armed"]
     ELSE w1

LogBufferAdd(w, b, id) ==
  LET w1 == [w EXCEPT !.buffers[b].buffer = Append(@, id)]
  IN IF jsGE(Len(w1.buffers[b].buffer), w1.buffers[b].maxSize)
     THEN LogBufferFlush(w1, b)
     ELSE IF w1.buffers[b].timer = "null"
     THEN [w1 EXCEPT !.buffers[b].timer = "armed"]
     ELSE w1

(* ------------------------------ LoggerImpl ----------------------------- *)
World ==
  [files |-> files, streams |-> streams, buffers |-> buffers,
   fws |-> fileWriteStream, lb |-> logBuffer, dropped |-> dropped,
   uncaught |-> uncaught, rots |-> rots, sinceRot |-> sinceRot, now |-> clock,
   cleaned |-> [kept |-> {}, deleted |-> {}], unlinked |-> {},
   fail |-> "none", failed |-> "none", diag |-> <<>>, printed |-> <<>>]

\* what a handler leaves behind outside the fields of its own logger object
CommitShared(w) ==
  /\ files' = w.files
  /\ streams' = w.streams
  /\ buffers' = w.buffers
  /\ dropped' = w.dropped
  /\ uncaught' = w.uncaught
  /\ rots' = w.rots
  /\ sinceRot' = w.sinceRot
  /\ stderr' = stderr \o w.diag

Commit(w) ==
  /\ CommitShared(w)
  /\ fileWriteStream' = w.fws
  /\ logBuffer' = w.lb

\* w.fail names the file operation that fails while the handler runs, w.failed the one
\* that did fail; w.diag is what the handler wrote to process.stderr
Threw(w, op, line) == [w EXCEPT !.failed = op, !.diag = Append(@, line)]

setupFileLogging(cfg, w) ==
  IF cfg.logFile # "" /\ ~cfg.disableFileLogging
  THEN IF w.fail = "mkdir" THEN Threw(w, "mkdir", "Failed to setup file logging")
       ELSE
       LET w1 == [w EXCEPT !.streams = Append(@, NewStream(cfg.logFile)),
                           !.fws = Len(w.streams) + 1]
       IN IF cfg.async
          THEN [w1 EXCEPT !.buffers = Append(@, NewBuffer(cfg.bufferSize, w1.fws)),
                          !.lb = Len(w.buffers) + 1]
          ELSE w1
  ELSE w

\* f.startsWith(base) && f.endsWith(ext), for a file of the log file at path f and the
\* base and extension of the log file at path: "app-errors" starts with "app"
startsWithBase(f, path) == f = path \/ (f = ErrorsPath /\ path = LogPath)

\* the files cleanupOldLogFiles lists: the name starts with the base and ends with the
\* extension, the live file excluded
Archives(fs, path) ==
  {i \in DOMAIN fs : /\ fs[i].linked
                     /\ startsWithBase(fs[i].name.path, path)
                     /\ fs[i].name # LiveName(path)}

\* sort by mtime descending and keep the first maxFiles: equal mtimes stay in
\* readdir order, which the file system chooses
CleanupKeeps(fs, cand, maxFiles) ==
  IF ~jsGT(Cardinality(cand), maxFiles) THEN {cand}
  ELSE {K \in SUBSET cand :
          /\ Cardinality(K) = maxFiles
          /\ \A k \in K, d \in cand \ K : fs[k].mtime >= fs[d].mtime}

\* the line this.error(...) logs from the catch of cleanupOldLogFiles
NestedId == -1

\* this.error(message) called from the catch of cleanupOldLogFiles: a whole log call,
\* whose checkAndRotateFile returns at once because the live file has just been renamed
errorFromCleanup(cfg, w) ==
  IF ~shouldLog(cfg, "ERROR") \/ ~shouldLogForMode(cfg, "ERROR") THEN w
  ELSE LET w1 == [w EXCEPT !.printed = Append(@, NestedId)]
       IN IF cfg.logFile = "" \/ cfg.disableFileLogging THEN w1
          ELSE IF w1.lb # 0 THEN LogBufferAdd(w1, w1.lb, NestedId)
          ELSE IF w1.fws # 0 /\ ~w1.streams[w1.fws].destroyed
          THEN streamWrite(w1, w1.fws, <<NestedId>>)
          ELSE appendFileSync(w1, cfg.logFile, <<NestedId>>)

cleanupOldLogFiles(cfg, w) ==
  LET cand == Archives(w.files, cfg.logFile)
  IN IF w.fail = "cleanup" THEN {errorFromCleanup(cfg, [w EXCEPT !.failed = "cleanup"])}
     ELSE
     {[w EXCEPT !.files = [i \in DOMAIN w.files |->
                             IF i \in cand \ K THEN Unlinked(w.files[i]) ELSE w.files[i]],
                !.cleaned = [kept |-> {w.files[i].mtime : i \in K},
                             deleted |-> {w.files[i].mtime : i \in cand \ K}],
                !.unlinked = @ \cup {w.files[i].name : i \in cand \ K}]
        : K \in CleanupKeeps(w.files, cand, cfg.maxFiles)}

\* fs.renameSync(logFile, archivePath): an archive of that name is replaced
renameSync(fs, from, to) ==
  LET i == FileAt(fs, from)
      j == FileAt(fs, to)
  IN [k \in DOMAIN fs |->
        IF k = i THEN [fs[k] EXCEPT !.name = to]
        ELSE IF k = j THEN Unlinked(fs[k])
        ELSE fs[k]]

\* trigger: the log call whose write rotates, 0 for a call of rotateLogFile()
rotateLogFile(cfg, w, trigger) ==
  IF cfg.logFile = "" \/ ~existsSync(w.files, cfg.logFile) THEN {w}
  ELSE
    LET w1 == IF w.fws # 0 /\ ~w.streams[w.fws].destroyed THEN streamEnd(w, w.fws) ELSE w
        archivePath == ArchiveName(cfg.logFile, w.now)
        w2 == [w1 EXCEPT !.files = renameSync(@, LiveName(cfg.logFile), archivePath)]
        rec == [trigger |-> trigger,
                archive |-> FileAt(w2.files, archivePath),
                replaced |-> FileAt(w.files, archivePath) # 0,
                stranded |-> IF w.lb = 0 THEN <<>> ELSE w.buffers[w.lb].buffer,
                cleaned |-> w.cleaned,
                unlinked |-> {}]
    IN IF w.fail = "rename" THEN {Threw(w1, "rename", "Failed to rotate log file")}
       ELSE
       {[setupFileLogging(cfg, w3) EXCEPT
           !.rots = Append(@, [rec EXCEPT !.cleaned = w3.cleaned,
                                          !.unlinked = w3.unlinked]),
           !.sinceRot = 0,
           !.diag = Append(@, "Log file rotated")]
          : w3 \in cleanupOldLogFiles(cfg, w2)}

\* checkAndRotateFile comparing with > instead of >=
checkAndRotateFile_Strict(cfg, w, trigger) ==
  IF cfg.logFile = "" \/ ~existsSync(w.files, cfg.logFile) THEN {w}
  ELSE IF jsGT(Len(w.files[FileAt(w.files, LiveName(cfg.logFile))].content),
               cfg.maxFileSize)
  THEN rotateLogFile(cfg, w, trigger)
  ELSE {w}

checkAndRotateFile(cfg, w, trigger) ==
  IF cfg.logFile = "" \/ ~existsSync(w.files, cfg.logFile) THEN {w}
  ELSE IF w.fail = "stat" THEN {Threw(w, "stat", "File rotation check error")}
  ELSE IF jsGE(Len(w.files[FileAt(w.files, LiveName(cfg.logFile))].content),
               cfg.maxFileSize)
  THEN rotateLogFile(cfg, w, trigger)
  ELSE {w}

writeToFile(cfg, w, id) ==
  IF cfg.logFile = "" THEN {w}
  ELSE {LET w2 == [w1 EXCEPT !.sinceRot = @ + 1]
        IN IF w2.lb # 0 THEN LogBufferAdd(w2, w2.lb, id)
           ELSE IF w2.fws # 0 /\ ~w2.streams[w2.fws].destroyed
           THEN streamWrite(w2, w2.fws, <<id>>)
           ELSE IF w2.fail = "append"
           THEN [Threw(w2, "append", "File logging error") EXCEPT !.dropped = @ \cup {id}]
           ELSE appendFileSync(w2, cfg.logFile, <<id>>)
          : w1 \in checkAndRotateFile(cfg, w, id)}


\* log checking the size of the file before it decides whether the call is emitted
log_ChecksFirst(cfg, w, level, id) ==
  IF ~shouldLog(cfg, level) \/ ~shouldLogForMode(cfg, level)
  THEN checkAndRotateFile(cfg, w, id)
  ELSE IF cfg.logFile # "" /\ ~cfg.disableFileLogging THEN writeToFile(cfg, w, id)
  ELSE {w}

\* what one log call does to the files, and whether it printed
log(cfg, w, level, id) ==
  IF ~shouldLog(cfg, level) \/ ~shouldLogForMode(cfg, level) THEN {w}
  ELSE IF cfg.logFile # "" /\ ~cfg.disableFileLogging THEN writeToFile(cfg, w, id)
  ELSE {w}

logPrints(cfg, level) == shouldLog(cfg, level) /\ shouldLogForMode(cfg, level)

logWrites(cfg, level) ==
  logPrints(cfg, level) /\ cfg.logFile # "" /\ ~cfg.disableFileLogging

\* LogBuffer.close ending the stream without flushing and without clearing the timer
LogBufferClose_EndOnly(w, b) ==
  LET ws == w.buffers[b].writeStream
  IN IF ws # 0 /\ ~w.streams[ws].destroyed THEN streamEnd(w, ws) ELSE w

\* LogBuffer.close, up to the promise it returns: pending iff the stream was ended
LogBufferClose(w, b) ==
  LET w1 == LogBufferFlush(w, b)
      w2 == [w1 EXCEPT !.buffers[b].timer = "null"]
      ws == w.buffers[b].writeStream
  IN IF ws # 0 /\ ~w2.streams[ws].destroyed THEN streamEnd(w2, ws) ELSE w2

LogBufferClosePending(w, b) ==
  LET ws == w.buffers[b].writeStream
  IN ws # 0 /\ ~LogBufferFlush(w, b).streams[ws].destroyed

\* the second half of LoggerImpl.close: end the stream under a 2 s timeout
closeStream(w) ==
  IF w.fws # 0 /\ ~w.streams[w.fws].destroyed THEN streamEnd(w, w.fws) ELSE w

closeStreamPending(w) == w.fws # 0 /\ ~w.streams[w.fws].destroyed

\* the timeout callbacks of LogBuffer.close (1 s) and LoggerImpl.close (2 s)
bufferCloseTimeout(w, ws) ==
  IF ~w.streams[ws].destroyed THEN streamDestroy(w, ws) ELSE w

closeTimeout(w) ==
  IF ~w.streams[w.fws].destroyed THEN streamDestroy(w, w.fws) ELSE w

(* ------------------------------- actions ------------------------------- *)
EmptyWorld ==
  [files |-> <<>>, streams |-> <<>>, buffers |-> <<>>, fws |-> 0, lb |-> 0,
   dropped |-> {}, uncaught |-> FALSE, rots |-> <<>>, sinceRot |-> 0, now |-> 1,
   cleaned |-> [kept |-> {}, deleted |-> {}], unlinked |-> {},
   fail |-> "none", failed |-> "none", diag |-> <<>>, printed |-> <<>>]

\* the log file an earlier run left behind: pre lines
Leftover(pre) ==
  IF pre = 0 THEN <<>>
  ELSE <<[NewFile(LiveName(LogPath), 0) EXCEPT !.content = [i \in 1..pre |-> 0]]>>

\* LoggerImpl.customFormatter: undefined, a function f of the caller's, or the function
\* createStructuredLogger installs
NoFormatter == [kind |-> "none", service |-> "", version |-> ""]
UserFormatter == [kind |-> "user", service |-> "", version |-> ""]
ServiceFormatter(service, version) ==
  [kind |-> "service", service |-> service, version |-> version]

\* new LoggerImpl(user, namespace) in the world w0, and the formatter set on it before
\* it is handed to the caller
ConstructWith(user, namespace, formatter, w0) ==
  /\ config = mergeConfig(getDefaultConfig, user)
  /\ LET w == setupFileLogging(config, w0)
     IN /\ files = w.files
        /\ streams = w.streams
        /\ buffers = w.buffers
        /\ fileWriteStream = w.fws
        /\ logBuffer = w.lb
        /\ stderr = w.diag
  /\ console = <<>>
  /\ clock = 1
  /\ closes = <<>>
  /\ flushes = <<>>
  /\ hist = <<>>
  /\ rots = <<>>
  /\ dropped = {}
  /\ uncaught = FALSE
  /\ sinceRot = 0
  /\ children = <<>>
  /\ exitCode = 0
  /\ lastAnswer = [level |-> "", answer |-> FALSE]
  /\ rootNamespace = namespace
  /\ customFormatter = formatter

\* new LoggerImpl(user) in the world w0
ConstructIn(user, w0) == ConstructWith(user, "", NoFormatter, w0)

\* new LoggerImpl(user), every file operation succeeding
Construct(user, pre) == ConstructIn(user, [EmptyWorld EXCEPT !.files = Leftover(pre)])

UserConfigs ==
  {[logFile |-> LogPath, async |-> a, bufferSize |-> b, maxFileSize |-> m, maxFiles |-> k]
     : a \in BOOLEAN, b \in 1..MaxSize, m \in 1..MaxSize, k \in 1..MaxSize}

Init == \E user \in UserConfigs, pre \in 0..1 : Construct(user, pre)

\* the "[namespace]" that formatConsoleOutput and formatFileOutput put in a line
namespaceStr(namespace) == IF namespace # "" THEN "[" \o namespace \o "]" ELSE ""

(* ---- texts: a text is a sequence of tokens, an argument a value over a heap ---- *)
\* a value is 0, a string, or the number of an object of the heap; an object is the
\* sequence of the values of its properties
\* from: the caller, or the method of the logger that logs the line itself
PlainArgs == [heap |-> <<>>, vals |-> <<0>>, from |-> "caller"]
ClearArgs == [heap |-> <<>>, vals |-> <<0>>, from |-> "clearLogFile"]

RECURSIVE JSONstringify(_, _, _, _, _)
RECURSIVE JSONproperties(_, _, _, _, _)
\* JSON.stringify(obj, replacer): every value, in document order, goes through the
\* replacer, which answers "[Circular]" for an object it has seen and remembers the
\* others; an object that is already being serialized makes JSON.stringify throw, and
\* "TypeError" stands where it does
JSONstringify(heap, v, stack, seen, replacer) ==
  IF v = 0 THEN [text |-> <<"x">>, seen |-> seen]
  ELSE IF replacer /\ v \in seen THEN [text |-> <<"[Circular]">>, seen |-> seen]
  ELSE IF v \in stack THEN [text |-> <<"TypeError">>, seen |-> seen]
  ELSE LET r == JSONproperties(heap, heap[v], stack \cup {v},
                               IF replacer THEN seen \cup {v} ELSE seen, replacer)
       IN [text |-> <<"{">> \o r.text \o <<"}">>, seen |-> r.seen]

JSONproperties(heap, fields, stack, seen, replacer) ==
  IF fields = <<>> THEN [text |-> <<>>, seen |-> seen]
  ELSE LET a == JSONstringify(heap, Head(fields), stack, seen, replacer)
           b == JSONproperties(heap, Tail(fields), stack, a.seen, replacer)
       IN [text |-> a.text \o b.text, seen |-> b.seen]

\* try { ... } catch: a throw becomes the text "[Serialization Error: ...]"
caught(text) ==
  IF "TypeError" \in Range(text) THEN <<"[Serialization Error]">> ELSE text

\* safeStringify calling JSON.stringify without the replacer
safeStringify_NoReplacer(heap, v) ==
  IF v = 0 THEN <<"x">>
  ELSE caught(JSONstringify(heap, v, {}, {}, FALSE).text)

safeStringify(heap, v) ==
  IF v = 0 THEN <<"x">>
  ELSE caught(JSONstringify(heap, v, {}, {}, TRUE).text)

formatMessage(args) ==
  Flatten([i \in DOMAIN args.vals |->
             IF args.vals[i] # 0 THEN safeStringify(args.heap, args.vals[i])
             ELSE <<"x">>])

createLogEntry(namespace, level, message) ==
  [level |-> level, namespace |-> namespace, message |-> message]

\* JSON.stringify(entry): a property that is undefined is left out
entryProperties(entry) ==
  <<"timestamp", "level=" \o entry.level>>
  \o (IF entry.namespace # "" THEN <<"namespace=" \o entry.namespace>> ELSE <<>>)
  \o <<"message=">> \o entry.message

applyFormatter(formatter, entry) ==
  IF formatter.kind = "service"
  THEN <<"{">> \o entryProperties(entry)
       \o <<"service=" \o formatter.service, "version=" \o formatter.version, "}", "\n">>
  ELSE <<"f(">> \o entryProperties(entry) \o <<")">>

formatConsoleOutput(cfg, formatter, namespace, entry) ==
  IF formatter.kind # "none" THEN applyFormatter(formatter, entry)
  ELSE (IF cfg.timestamps THEN <<"gray[timestamp]">> ELSE <<>>)
       \o (IF cfg.colorize THEN <<"badge(" \o entry.level \o ")">>
           ELSE <<"[" \o entry.level \o "]">>)
       \o <<":">>
       \o (IF namespace # "" THEN <<"cyan[" \o namespace \o "]">> ELSE <<>>)
       \o (IF cfg.colorize THEN <<"color(">> \o entry.message \o <<")">>
           ELSE entry.message)

\* formatFileOutput consulting logFormat "json" before the formatter
formatFileOutput_FormatFirst(cfg, formatter, entry) ==
  IF formatter.kind # "none" /\ cfg.logFormat # "json" THEN applyFormatter(formatter, entry)
  ELSE CASE cfg.logFormat = "json" ->
              <<"{">> \o entryProperties(entry) \o <<"}", "\n">>
         [] cfg.logFormat = "structured" ->
              <<"timestamp", "[" \o entry.level \o "]", namespaceStr(entry.namespace)>>
              \o entry.message \o <<"\n">>
         [] OTHER ->
              <<"[timestamp]", "[" \o entry.level \o "]" \o namespaceStr(entry.namespace),
                ":">> \o entry.message \o <<"\n">>

formatFileOutput(cfg, formatter, entry) ==
  IF formatter.kind # "none" THEN applyFormatter(formatter, entry)
  ELSE CASE cfg.logFormat = "json" ->
              <<"{">> \o entryProperties(entry) \o <<"}", "\n">>
         [] cfg.logFormat = "structured" ->
              <<"timestamp", "[" \o entry.level \o "]", namespaceStr(entry.namespace)>>
              \o entry.message \o <<"\n">>
         [] OTHER ->
              <<"[timestamp]", "[" \o entry.level \o "]" \o namespaceStr(entry.namespace),
                ":">> \o entry.message \o <<"\n">>

\* the customFormatter of a logger: child() passes none to the object it makes
NodeFormatter(node) == IF node = 0 THEN customFormatter ELSE NoFormatter

\* node: 0 for the root logger, else the index of the child that was called
CallRecordFor(cfg, node, namespace, level, w2, args) ==
  [level |-> level,
   args |-> args,
   consoleText |->
     formatConsoleOutput(cfg, NodeFormatter(node), namespace,
                         createLogEntry(namespace, level, formatMessage(args))),
   fileText |->
     formatFileOutput(cfg, NodeFormatter(node),
                      createLogEntry(namespace, level, formatMessage(args))),
   emitted |-> logPrints(cfg, level),
   filed |-> logWrites(cfg, level),
   rotated |-> Len(w2.rots) > Len(rots),
   before |-> sinceRot,
   closed |-> closes # <<>>,
   node |-> node,
   tag |-> namespaceStr(namespace),
   path |-> cfg.logFile,
   failed |-> w2.failed]

CallRecordOf(cfg, node, namespace, level, w2) ==
  CallRecordFor(cfg, node, namespace, level, w2, PlainArgs)

CallRecord(level, w2) == CallRecordOf(config, 0, rootNamespace, level, w2)

\* logger.trace / debug / info / warn / error / success (...args) in the world w0
LogWith(level, w0, args) ==
  /\ \E w2 \in log(config, w0, level, Len(hist) + 1) :
       /\ Len(w2.rots) <= MaxRotations
       /\ Commit(w2)
       /\ hist' = Append(hist, CallRecordFor(config, 0, rootNamespace, level, w2, args))
       /\ console' = (IF logPrints(config, level) THEN Append(console, Len(hist) + 1)
                      ELSE console) \o w2.printed
  /\ UNCHANGED <<config, clock, closes, flushes>>
  /\ UNCHANGED aside

\* fs.writeFileSync(path, ""): the file is truncated, or created empty
writeFileSyncEmpty(w, path) ==
  LET i == FileAt(w.files, LiveName(path))
  IN IF i # 0
     THEN [w EXCEPT !.files[i].content = <<>>, !.files[i].mtime = w.now]
     ELSE [w EXCEPT !.files = Append(@, NewFile(LiveName(path), w.now))]

\* logger.clearLogFile() in the world w0: the file is emptied and the logger logs
\* "Log file cleared", or "Failed to clear log file" when writeFileSync throws
ClearLogFileIn(w0) ==
  IF config.logFile # "" /\ existsSync(w0.files, config.logFile)
  THEN IF w0.fail = "truncate"
       THEN LogWith("ERROR", [w0 EXCEPT !.fail = "none", !.failed = "truncate"], ClearArgs)
       ELSE LogWith("INFO", writeFileSyncEmpty(w0, config.logFile), ClearArgs)
  ELSE UNCHANGED vars

\* a log call with one string for argument
LogIn(level, w0) == LogWith(level, w0, PlainArgs)

\* a log call, every file operation succeeding
Log(level) == LogIn(level, World)

\* a log call during which the file operation op fails, if the call comes to it
LogFailing(level, op) == LogIn(level, [World EXCEPT !.fail = op])

LogCall ==
  /\ Len(hist) < MaxCalls
  /\ \E level \in {"INFO", "TRACE"} : Log(level)

\* logger.rotateLogFile()
RotateCall ==
  /\ Len(rots) < MaxRotations
  /\ \E w2 \in rotateLogFile(config, World, 0) :
       Commit(w2) /\ console' = console \o w2.printed
  /\ UNCHANGED <<config, clock, closes, flushes, hist>>
  /\ UNCHANGED aside

\* the flush timer of a LogBuffer fires
TimerFire(b) ==
  /\ buffers[b].timer = "armed"
  /\ Commit(LogBufferFlush([World EXCEPT !.buffers[b].timer = "fired"], b))
  /\ UNCHANGED <<config, console, clock, closes, flushes, hist>>
  /\ UNCHANGED aside

\* fs.open of a stream completes: flags "a" create the file when there is none
StreamOpen(s) ==
  /\ ~streams[s].opened
  /\ LET name == LiveName(streams[s].path)
         fs == IF FileAt(files, name) # 0 THEN files
               ELSE Append(files, NewFile(name, clock))
     IN /\ files' = fs
        /\ streams' = [streams EXCEPT ![s].opened = TRUE, ![s].fd = FileAt(fs, name)]
  /\ UNCHANGED <<config, buffers, fileWriteStream, logBuffer, console, clock, closes,
                 flushes, hist, rots, dropped, uncaught, sinceRot>>
  /\ UNCHANGED <<aside, stderr>>

\* an uncaught exception ends the process
Crash ==
  /\ uncaught /\ exitCode = 0
  /\ exitCode' = 1
  /\ UNCHANGED <<config, files, streams, buffers, fileWriteStream, logBuffer, console,
                 clock, closes, flushes, hist, rots, dropped, uncaught, sinceRot,
                 children, lastAnswer, stderr,
                 rootNamespace, customFormatter>>

\* one queued chunk reaches the descriptor
StreamWrite(s) ==
  /\ streams[s].opened /\ ~streams[s].destroyed /\ streams[s].pending # <<>>
  /\ files' = AppendTo(files, streams[s].fd, Head(streams[s].pending), clock)
  /\ streams' = [streams EXCEPT ![s].pending = Tail(@)]
  /\ UNCHANGED <<config, buffers, fileWriteStream, logBuffer, console, clock, closes,
                 flushes, hist, rots, dropped, uncaught, sinceRot>>
  /\ UNCHANGED <<aside, stderr>>

\* a close() waiting for the end of stream s is told so
Settle(c, s, how) ==
  IF c.stream # s THEN c
  ELSE IF c.pc = "awaitBuf" /\ ~c.settled THEN [c EXCEPT !.settled = TRUE, !.how = how]
  ELSE IF c.pc = "awaitEnd" THEN [c EXCEPT !.pc = "done", !.how = how]
  ELSE c

\* fs.open of a stream fails: the stream is destroyed and emits 'error', which has no
\* listener, so the error is thrown as an uncaught exception
StreamOpenFail(s) ==
  /\ ~streams[s].opened /\ ~streams[s].destroyed
  /\ Commit(streamDestroy([World EXCEPT !.uncaught = TRUE], s))
  /\ closes' = [c \in DOMAIN closes |-> Settle(closes[c], s, "error")]
  /\ UNCHANGED <<config, console, clock, flushes, hist>>
  /\ UNCHANGED aside

\* the write of a queued chunk fails: the same 'error' without a listener
StreamWriteFail(s) ==
  /\ streams[s].opened /\ ~streams[s].destroyed /\ streams[s].pending # <<>>
  /\ Commit(streamDestroy([World EXCEPT !.uncaught = TRUE], s))
  /\ closes' = [c \in DOMAIN closes |-> Settle(closes[c], s, "error")]
  /\ UNCHANGED <<config, console, clock, flushes, hist>>
  /\ UNCHANGED aside

\* an ended stream has written everything: 'finish', the end callbacks, autoDestroy
StreamFinish(s) ==
  /\ streams[s].opened /\ streams[s].ending /\ ~streams[s].destroyed
  /\ streams[s].pending = <<>>
  /\ streams' = [streams EXCEPT ![s].destroyed = TRUE]
  /\ closes' = [c \in DOMAIN closes |-> Settle(closes[c], s, "end")]
  /\ UNCHANGED <<config, files, buffers, fileWriteStream, logBuffer, console, clock,
                 flushes, hist, rots, dropped, uncaught, sinceRot>>
  /\ UNCHANGED <<aside, stderr>>

Tick ==
  /\ clock < MaxClock
  /\ clock' = clock + 1
  /\ UNCHANGED <<config, files, streams, buffers, fileWriteStream, logBuffer, console,
                 closes, flushes, hist, rots, dropped, uncaught, sinceRot>>
  /\ UNCHANGED <<aside, stderr>>

\* LoggerImpl.close up to its first suspension: the world after it and the call's record
StartClose(w, then) ==
  IF w.lb # 0
  THEN <<LogBufferClose(w, w.lb),
         [pc |-> "awaitBuf", stream |-> w.buffers[w.lb].writeStream, buffer |-> w.lb,
          settled |-> ~LogBufferClosePending(w, w.lb),
          how |-> IF LogBufferClosePending(w, w.lb) THEN "" ELSE "now",
          victims |-> {}, then |-> then]>>
  ELSE <<closeStream(w),
         [pc |-> IF closeStreamPending(w) THEN "awaitEnd" ELSE "done",
          stream |-> w.fws, buffer |-> 0, settled |-> TRUE,
          how |-> IF closeStreamPending(w) THEN "" ELSE "now",
          victims |-> {}, then |-> then]>>

\* logger.close()
CloseCall ==
  /\ Len(closes) < MaxCloses
  /\ LET r == StartClose(World, "none")
     IN Commit(r[1]) /\ closes' = Append(closes, r[2])
  /\ UNCHANGED <<config, console, clock, flushes, hist>>
  /\ UNCHANGED aside

\* the 1 s timeout of LogBuffer.close fires before the stream has ended
BufferCloseTimeout(c) ==
  /\ c \in DOMAIN closes
  /\ closes[c].pc = "awaitBuf" /\ ~closes[c].settled
  /\ Commit(bufferCloseTimeout(World, closes[c].stream))
  /\ closes' = [closes EXCEPT ![c].settled = TRUE, ![c].how = "timeout",
                              ![c].victims = @ \cup {closes[c].stream}]
  /\ UNCHANGED <<config, console, clock, flushes, hist>>
  /\ UNCHANGED aside

\* after "await this.logBuffer.close()": drop the buffer, end the stream
CloseResume(c) ==
  /\ c \in DOMAIN closes
  /\ closes[c].pc = "awaitBuf" /\ closes[c].settled
  /\ LET w1 == [World EXCEPT !.lb = 0]
     IN /\ Commit(closeStream(w1))
        /\ closes' = [closes EXCEPT
                        ![c].pc = IF closeStreamPending(w1) THEN "awaitEnd" ELSE "done",
                        ![c].stream = w1.fws,
                        ![c].how = IF closeStreamPending(w1) THEN "" ELSE @]
  /\ UNCHANGED <<config, console, clock, flushes, hist>>
  /\ UNCHANGED aside

\* the 2 s timeout of LoggerImpl.close fires before the stream has ended
CloseTimeout(c) ==
  /\ c \in DOMAIN closes
  /\ closes[c].pc = "awaitEnd"
  /\ Commit(closeTimeout(World))
  /\ closes' = [closes EXCEPT ![c].pc = "done", ![c].how = "timeout",
                              ![c].victims = @ \cup {fileWriteStream}]
  /\ UNCHANGED <<config, console, clock, flushes, hist>>
  /\ UNCHANGED aside

\* a stream destroyed under a pending end(cb) calls cb with an error (Node 15 and later)
EndCallbackDestroyed(c) ==
  /\ c \in DOMAIN closes
  /\ \/ closes[c].pc = "awaitBuf" /\ ~closes[c].settled
     \/ closes[c].pc = "awaitEnd"
  /\ streams[closes[c].stream].destroyed
  /\ closes' = [closes EXCEPT ![c] = Settle(@, closes[c].stream, "error")]
  /\ UNCHANGED <<config, files, streams, buffers, fileWriteStream, logBuffer, console,
                 clock, flushes, hist, rots, dropped, uncaught, sinceRot>>
  /\ UNCHANGED <<aside, stderr>>

\* setConfig's "this.close().then(() => this.setupFileLogging())"
SetupAfterClose(c) ==
  /\ c \in DOMAIN closes
  /\ closes[c].pc = "done" /\ closes[c].then = "setup"
  /\ Commit(setupFileLogging(config, World))
  /\ closes' = [closes EXCEPT ![c].then = "none"]
  /\ UNCHANGED <<config, console, clock, flushes, hist>>
  /\ UNCHANGED aside

\* LoggerImpl.flush up to the promise it returns: the world after it and the call's
\* record; then names what the caller chained on the promise
flushStart(w, then) ==
  LET w1 == IF w.lb # 0 THEN LogBufferFlush(w, w.lb) ELSE w
      waits == /\ w1.fws # 0
               /\ ~w1.streams[w1.fws].destroyed
               /\ ~w1.streams[w1.fws].ending
  IN <<w1,
       [pc |-> IF waits THEN "wait" ELSE "done",
        stream |-> w1.fws,
        queued |-> IF w.lb # 0 THEN Range(w.buffers[w.lb].buffer) ELSE {},
        refused |-> w1.dropped \ w.dropped,
        how |-> IF waits THEN "" ELSE "now",
        then |-> then]>>

\* logger.flush(), at most n times
FlushUpTo(n) ==
  /\ Len(flushes) < n
  /\ LET r == flushStart(World, "")
     IN Commit(r[1]) /\ flushes' = Append(flushes, r[2])
  /\ UNCHANGED <<config, console, clock, closes, hist>>
  /\ UNCHANGED aside

FlushCall == FlushUpTo(MaxFlushes)

\* logger.fatal(...args): the log call, then flush() with the exit chained on it
Fatal ==
  /\ Len(flushes) < MaxFlushes
  /\ \E w2 \in log(config, World, "FATAL", Len(hist) + 1) :
       LET r == flushStart(w2, "exit")
       IN /\ Len(w2.rots) <= MaxRotations
          /\ Commit(r[1])
          /\ flushes' = Append(flushes, r[2])
          /\ hist' = Append(hist, CallRecord("FATAL", w2))
          /\ console' = (IF logPrints(config, "FATAL")
                         THEN Append(console, Len(hist) + 1) ELSE console) \o w2.printed
  /\ UNCHANGED <<config, clock, closes>>
  /\ UNCHANGED aside

\* the continuation of fatal() running before the flush has resolved
FatalExit_Early(f) ==
  /\ flushes[f].then = "exit"
  /\ exitCode = 0
  /\ exitCode' = 1
  /\ UNCHANGED <<config, files, streams, buffers, fileWriteStream, logBuffer, console,
                 clock, closes, flushes, hist, rots, dropped, uncaught, sinceRot,
                 children, lastAnswer, stderr,
                 rootNamespace, customFormatter>>

\* the continuation fatal() chained on its flush: process.exit(1)
FatalExit(f) ==
  /\ flushes[f].then = "exit"
  /\ flushes[f].pc = "done"
  /\ exitCode = 0
  /\ exitCode' = 1
  /\ UNCHANGED <<config, files, streams, buffers, fileWriteStream, logBuffer, console,
                 clock, closes, flushes, hist, rots, dropped, uncaught, sinceRot,
                 children, lastAnswer, stderr,
                 rootNamespace, customFormatter>>

\* the 1 s timeout of flush() fires
FlushTimeout(f) ==
  /\ flushes[f].pc = "wait"
  /\ flushes' = [flushes EXCEPT ![f].pc = "done", ![f].how = "timeout"]
  /\ UNCHANGED <<config, files, streams, buffers, fileWriteStream, logBuffer, console,
                 clock, closes, hist, rots, dropped, uncaught, sinceRot>>
  /\ UNCHANGED <<aside, stderr>>

\* the stream emits 'drain': its queue ran empty
FlushDrain(f) ==
  /\ flushes[f].pc = "wait"
  /\ LET s == streams[flushes[f].stream]
     IN s.opened /\ ~s.destroyed /\ s.pending = <<>>
  /\ flushes' = [flushes EXCEPT ![f].pc = "done", ![f].how = "drain"]
  /\ UNCHANGED <<config, files, streams, buffers, fileWriteStream, logBuffer, console,
                 clock, closes, hist, rots, dropped, uncaught, sinceRot>>
  /\ UNCHANGED <<aside, stderr>>

\* setLevel on a config object the children share
SetLevel_Shared(level) ==
  /\ config' = [config EXCEPT !.minLevel = level]
  /\ children' = [k \in DOMAIN children |-> [children[k] EXCEPT !.config.minLevel = level]]
  /\ UNCHANGED <<files, streams, buffers, fileWriteStream, logBuffer, console, clock,
                 closes, flushes, hist, rots, dropped, uncaught, sinceRot, exitCode,
                 lastAnswer, stderr,
                 rootNamespace, customFormatter>>

\* logger.setLevel(level)
SetLevel(level) ==
  /\ config' = [config EXCEPT !.minLevel = level]
  /\ UNCHANGED <<files, streams, buffers, fileWriteStream, logBuffer, console, clock,
                 closes, flushes, hist, rots, dropped, uncaught, sinceRot>>
  /\ UNCHANGED <<aside, stderr>>

\* logger.setFormatter(f)
SetFormatter(formatter) ==
  /\ customFormatter' = formatter
  /\ UNCHANGED <<config, files, streams, buffers, fileWriteStream, logBuffer, console,
                 clock, closes, flushes, hist, rots, dropped, uncaught, sinceRot,
                 children, exitCode, lastAnswer, stderr, rootNamespace>>

\* isLevelEnabled answering from the level threshold alone
IsLevelEnabled_ShouldLogOnly(level) ==
  /\ lastAnswer' = [level |-> level, answer |-> shouldLog(config, level)]
  /\ UNCHANGED <<config, files, streams, buffers, fileWriteStream, logBuffer, console,
                 clock, closes, flushes, hist, rots, dropped, uncaught, sinceRot,
                 children, exitCode, stderr, rootNamespace, customFormatter>>

\* logger.isLevelEnabled(level): the answer is recorded, nothing is assigned
IsLevelEnabled(level) ==
  /\ lastAnswer' = [level |-> level,
                    answer |-> shouldLog(config, level) /\ shouldLogForMode(config, level)]
  /\ UNCHANGED <<config, files, streams, buffers, fileWriteStream, logBuffer, console,
                 clock, closes, flushes, hist, rots, dropped, uncaught, sinceRot,
                 children, exitCode, stderr,
                 rootNamespace, customFormatter>>

\* setConfig setting file logging up again whenever the merged config differs
SetConfig_SetupAgain(partial) ==
  /\ config' = mergeConfig(config, partial)
  /\ IF config # mergeConfig(config, partial)
     THEN /\ Commit(setupFileLogging(mergeConfig(config, partial), World))
          /\ UNCHANGED closes
     ELSE UNCHANGED <<files, streams, buffers, fileWriteStream, logBuffer, closes,
                      rots, dropped, uncaught, sinceRot, stderr>>
  /\ UNCHANGED <<console, clock, flushes, hist>>
  /\ UNCHANGED aside

\* logger.setConfig(partial)
SetConfig(partial) ==
  /\ config' = mergeConfig(config, partial)
  /\ IF config.logFile # mergeConfig(config, partial).logFile
     THEN /\ Len(closes) < MaxCloses
          /\ LET r == StartClose(World, "setup")
             IN Commit(r[1]) /\ closes' = Append(closes, r[2])
     ELSE UNCHANGED <<files, streams, buffers, fileWriteStream, logBuffer, closes,
                      rots, dropped, uncaught, sinceRot, stderr>>
  /\ UNCHANGED <<console, clock, flushes, hist>>
  /\ UNCHANGED aside

(* ------------------------------ children ------------------------------- *)
\* child() forgetting the namespace of its parent
childNamespace_Bare(parentNamespace, namespace) == namespace

\* `${this.namespace}:${namespace}` when this.namespace is truthy, else namespace
childNamespace(parentNamespace, namespace) ==
  IF parentNamespace # "" THEN parentNamespace \o ":" \o namespace ELSE namespace

NodeConfig(p) == IF p = 0 THEN config ELSE children[p].config
NodeNamespace(p) == IF p = 0 THEN rootNamespace ELSE children[p].namespace

\* child() handing its parent's stream and buffer to the child
Child_Sharing(p, namespace) ==
  /\ Len(children) < MaxChildren
  /\ children' = Append(children,
       [config |-> mergeConfig(getDefaultConfig, NodeConfig(p)),
        namespace |-> childNamespace(NodeNamespace(p), namespace),
        fws |-> IF p = 0 THEN fileWriteStream ELSE children[p].fws,
        lb |-> IF p = 0 THEN logBuffer ELSE children[p].lb,
        parent |-> p, given |-> namespace])
  /\ UNCHANGED <<config, files, streams, buffers, fileWriteStream, logBuffer, console,
                 clock, closes, flushes, hist, rots, dropped, uncaught, sinceRot,
                 exitCode, lastAnswer, stderr,
                 rootNamespace, customFormatter>>

\* p.child(namespace): new LoggerImpl(p.config, childNamespace), with its own stream
Child(p, namespace) ==
  /\ Len(children) < MaxChildren
  /\ LET cfg == mergeConfig(getDefaultConfig, NodeConfig(p))
         w == setupFileLogging(cfg, [World EXCEPT !.fws = 0, !.lb = 0])
     IN /\ children' = Append(children,
             [config |-> cfg,
              namespace |-> childNamespace(NodeNamespace(p), namespace),
              fws |-> w.fws, lb |-> w.lb,
              parent |-> p, given |-> namespace])
        /\ streams' = w.streams
        /\ buffers' = w.buffers
  /\ UNCHANGED <<config, files, fileWriteStream, logBuffer, console, clock, closes,
                 flushes, hist, rots, dropped, uncaught, sinceRot, exitCode,
                 lastAnswer, stderr,
                 rootNamespace, customFormatter>>

\* a log call on child k
ChildLog(k, level) ==
  /\ LET c == children[k]
         w == [World EXCEPT !.fws = c.fws, !.lb = c.lb]
     IN \E w2 \in log(c.config, w, level, Len(hist) + 1) :
          /\ Len(w2.rots) <= MaxRotations
          /\ CommitShared(w2)
          /\ children' = [children EXCEPT ![k].fws = w2.fws, ![k].lb = w2.lb]
          /\ hist' = Append(hist, CallRecordOf(c.config, k, c.namespace, level, w2))
          /\ console' = (IF logPrints(c.config, level)
                         THEN Append(console, Len(hist) + 1)
                         ELSE console) \o w2.printed
  /\ UNCHANGED <<config, fileWriteStream, logBuffer, clock, closes, flushes,
                 exitCode, lastAnswer,
                 rootNamespace, customFormatter>>

(* --------------------------- specifications ---------------------------- *)
\* the file engine: log calls, rotations, flush timers and the streams' progress
Next ==
  \/ LogCall
  \/ RotateCall
  \/ \E b \in DOMAIN buffers : TimerFire(b)
  \/ \E s \in DOMAIN streams : StreamOpen(s)
  \/ \E s \in DOMAIN streams : StreamWrite(s)
  \/ \E s \in DOMAIN streams : StreamFinish(s)
  \/ Tick

Spec == Init /\ [][Next]_vars

\* the level gate: every level, mode, allow-set and minLevel
AllowSets == {Levels \ S : S \in SUBSET {"TRACE", "INFO", "ERROR"}}

GateConfigs ==
  {[logFile |-> LogPath, mode |-> m, levels |-> a, minLevel |-> l]
     : m \in Modes, a \in AllowSets, l \in Levels}

InitGate == \E user \in GateConfigs : Construct(user, 0)

LogGate ==
  /\ Len(hist) < GateCalls
  /\ \E level \in Levels : Log(level)

SetConfigGate ==
  \/ \E m \in Modes : SetConfig([mode |-> m])
  \/ \E a \in AllowSets : SetConfig([levels |-> a])
  \/ \E l \in Levels \cup {"VERBOSE"} : SetConfig([minLevel |-> l])

SetLevelCall == \E l \in Levels : SetLevel(l)

NextGate == LogGate \/ SetConfigGate \/ SetLevelCall

SpecGate == InitGate /\ [][NextGate]_vars


\* the decision alone: every level asked and logged under every gate configuration
IsLevelEnabledCall == \E level \in Levels : IsLevelEnabled(level)

NextDecide == LogGate \/ IsLevelEnabledCall

SpecDecide == InitGate /\ [][NextDecide]_vars

\* child loggers: made from the root or from a child, while the root is reconfigured
ChildConfigs ==
  {[logFile |-> LogPath, mode |-> m, minLevel |-> l, async |-> a, bufferSize |-> MaxSize]
     : m \in {"normal", "verbose"}, l \in {"DEBUG", "WARN"}, a \in BOOLEAN}

InitChild == \E user \in ChildConfigs : Construct(user, 0)

ChildCall ==
  \E p \in {0} \cup DOMAIN children, namespace \in {"x", "y", ""} : Child(p, namespace)

ChildLogCall ==
  /\ Len(hist) < ChildCalls
  /\ \E k \in DOMAIN children, level \in {"TRACE", "INFO"} : ChildLog(k, level)

SetConfigChild ==
  \/ \E m \in {"normal", "verbose"} : SetConfig([mode |-> m])
  \/ \E l \in {"DEBUG", "WARN"} : SetConfig([minLevel |-> l])

SetLevelChild == \E l \in {"DEBUG", "WARN"} : SetLevel(l)

NextChild == ChildCall \/ ChildLogCall \/ SetConfigChild \/ SetLevelChild

SpecChild == InitChild /\ [][NextChild]_vars

\* the configuration: every number a caller can pass, NaN and non-positive ones included
Numbers == {NaN, -1, 0, 1, 2}

ConfigPartials ==
  {[maxFileSize |-> n] : n \in Numbers} \cup {[maxFiles |-> n] : n \in Numbers}
    \cup {[bufferSize |-> n, mode |-> m] : n \in Numbers, m \in {"normal", "debug"}}
    \cup {[minLevel |-> l, maxFiles |-> n] : l \in {"WARN", "VERBOSE"}, n \in {0, 1, 2}}

InitConfig == \E user \in ConfigPartials : Construct(user, 0)

SetConfigCall == \E partial \in ConfigPartials : SetConfig(partial)

NextConfig == SetConfigCall

SpecConfig == InitConfig /\ [][NextConfig]_vars

\* rotation by size alone: log calls and the stream's own steps
InitSize ==
  \E user \in {u \in UserConfigs : u.maxFiles = 1}, pre \in 0..1 : Construct(user, pre)

LogSize ==
  /\ Len(hist) < SizeCalls
  /\ Log("INFO")

NextSize ==
  \/ LogSize
  \/ \E b \in DOMAIN buffers : TimerFire(b)
  \/ \E s \in DOMAIN streams : StreamOpen(s)
  \/ \E s \in DOMAIN streams : StreamWrite(s)
  \/ \E s \in DOMAIN streams : StreamFinish(s)

SpecSize == InitSize /\ [][NextSize]_vars

\* the life cycle: close() and flush() among log calls, with the timers that bound them
InitClose ==
  \E user \in {u \in UserConfigs : u.maxFiles = 1 /\ u.bufferSize = MaxSize},
     pre \in 0..1 : Construct(user, pre)

LogInfo ==
  /\ Len(hist) < CloseCalls
  /\ Log("INFO")

NextClose ==
  \/ LogInfo
  \/ CloseCall
  \/ \E c \in DOMAIN closes : BufferCloseTimeout(c)
  \/ \E c \in DOMAIN closes : CloseResume(c)
  \/ \E c \in DOMAIN closes : CloseTimeout(c)
  \/ \E c \in DOMAIN closes : EndCallbackDestroyed(c)
  \/ \E b \in DOMAIN buffers : TimerFire(b)
  \/ \E s \in DOMAIN streams : StreamOpen(s)
  \/ \E s \in DOMAIN streams : StreamWrite(s)
  \/ \E s \in DOMAIN streams : StreamFinish(s)

\* timers that were armed fire and continuations of settled promises run; a stream
\* may stall for ever
SpecClose ==
  /\ InitClose
  /\ [][NextClose]_vars
  /\ \A c \in 1..MaxCloses :
       /\ WF_vars(BufferCloseTimeout(c))
       /\ WF_vars(CloseResume(c))
       /\ WF_vars(CloseTimeout(c))

\* flush() among log calls and close(): no fairness, every timer may be late
NextFlush ==
  \/ NextClose
  \/ FlushCall
  \/ \E f \in DOMAIN flushes : FlushTimeout(f)
  \/ \E f \in DOMAIN flushes : FlushDrain(f)

SpecFlush == InitClose /\ [][NextFlush]_vars

\* fatal() among log calls: the flush timeout fires, continuations of resolved promises
\* run, a stream may stall for ever, and nothing runs once the process has exited
FatalConfigs ==
  {[logFile |-> f, async |-> a, bufferSize |-> MaxSize, maxFileSize |-> MaxSize,
    maxFiles |-> 1, mode |-> m]
     : f \in {"", LogPath}, a \in BOOLEAN, m \in {"silent", "normal"}}

InitFatal == \E user \in FatalConfigs, pre \in 0..1 : Construct(user, pre)

Running == exitCode = 0

NextFatal ==
  \/ Running /\ LogInfo
  \/ Running /\ Fatal
  \/ Running /\ \E f \in DOMAIN flushes : FlushTimeout(f)
  \/ Running /\ \E f \in DOMAIN flushes : FlushDrain(f)
  \/ Running /\ \E f \in DOMAIN flushes : FatalExit(f)
  \/ Running /\ \E b \in DOMAIN buffers : TimerFire(b)
  \/ Running /\ \E s \in DOMAIN streams : StreamOpen(s)
  \/ Running /\ \E s \in DOMAIN streams : StreamWrite(s)
  \/ Running /\ \E s \in DOMAIN streams : StreamFinish(s)

SpecFatal ==
  /\ InitFatal
  /\ [][NextFatal]_vars
  /\ \A f \in 1..MaxFlushes :
       /\ WF_vars(f \in DOMAIN flushes /\ FlushTimeout(f))
       /\ WF_vars(f \in DOMAIN flushes /\ FatalExit(f))

\* flush() called again: an asynchronous logger, its log calls, timers and stream
InitAgain ==
  \E user \in {u \in UserConfigs : u.async /\ u.maxFiles = 1 /\ u.maxFileSize = MaxSize},
     pre \in 0..1 : Construct(user, pre)

FlushAgain == FlushUpTo(TwoFlushes)

NextAgain ==
  \/ LogInfo
  \/ FlushAgain
  \/ \E f \in DOMAIN flushes : FlushTimeout(f)
  \/ \E f \in DOMAIN flushes : FlushDrain(f)
  \/ \E b \in DOMAIN buffers : TimerFire(b)
  \/ \E s \in DOMAIN streams : StreamOpen(s)
  \/ \E s \in DOMAIN streams : StreamWrite(s)
  \/ \E s \in DOMAIN streams : StreamFinish(s)

SpecAgain == InitAgain /\ [][NextAgain]_vars

\* the flush timer under flush() and close(): an asynchronous logger
InitCancel ==
  \E user \in {u \in UserConfigs : /\ u.async /\ u.maxFiles = 1
                                    /\ u.maxFileSize = MaxSize /\ u.bufferSize = MaxSize} :
    Construct(user, 1)

NextCancel ==
  \/ LogInfo
  \/ FlushCall
  \/ CloseCall
  \/ \E f \in DOMAIN flushes : FlushTimeout(f)
  \/ \E f \in DOMAIN flushes : FlushDrain(f)
  \/ \E c \in DOMAIN closes : BufferCloseTimeout(c)
  \/ \E c \in DOMAIN closes : CloseResume(c)
  \/ \E c \in DOMAIN closes : CloseTimeout(c)
  \/ \E c \in DOMAIN closes : EndCallbackDestroyed(c)
  \/ \E b \in DOMAIN buffers : TimerFire(b)
  \/ \E s \in DOMAIN streams : StreamOpen(s)
  \/ \E s \in DOMAIN streams : StreamWrite(s)
  \/ \E s \in DOMAIN streams : StreamFinish(s)

SpecCancel == InitCancel /\ [][NextCancel]_vars

\* file operations that fail: a synchronous logger, its log calls and its stream
FailConfigs ==
  {[logFile |-> LogPath, maxFileSize |-> m, maxFiles |-> 1, mode |-> md]
     : m \in 1..MaxSize, md \in {"normal", "silent"}}

InitFail ==
  \E user \in FailConfigs, pre \in 0..1, op \in {"none", "mkdir"} :
    ConstructIn(user, [EmptyWorld EXCEPT !.files = Leftover(pre), !.fail = op])

LogFailCall ==
  /\ Len(hist) < FailCalls
  /\ \E op \in {"none", "stat", "rename", "cleanup", "append"} : LogFailing("INFO", op)

NextFail ==
  \/ Running /\ LogFailCall
  \/ Running /\ \E s \in DOMAIN streams : StreamOpen(s)
  \/ Running /\ \E s \in DOMAIN streams : StreamOpenFail(s)
  \/ Running /\ \E s \in DOMAIN streams : StreamWrite(s)
  \/ Running /\ \E s \in DOMAIN streams : StreamWriteFail(s)
  \/ Running /\ \E s \in DOMAIN streams : StreamFinish(s)
  \/ Crash

SpecFail == InitFail /\ [][NextFail]_vars

\* setConfig moves the log to another file among log calls
SetConfigPath == SetConfig([logFile |-> OtherPath])

NextReconf ==
  \/ LogInfo
  \/ SetConfigPath
  \/ CloseCall
  \/ \E c \in DOMAIN closes : BufferCloseTimeout(c)
  \/ \E c \in DOMAIN closes : CloseResume(c)
  \/ \E c \in DOMAIN closes : CloseTimeout(c)
  \/ \E c \in DOMAIN closes : EndCallbackDestroyed(c)
  \/ \E c \in DOMAIN closes : SetupAfterClose(c)
  \/ \E b \in DOMAIN buffers : TimerFire(b)
  \/ \E s \in DOMAIN streams : StreamOpen(s)
  \/ \E s \in DOMAIN streams : StreamWrite(s)
  \/ \E s \in DOMAIN streams : StreamFinish(s)

SpecReconf == InitClose /\ [][NextReconf]_vars

\* the texts: every logFormat, colorize and timestamps, with and without a formatter
LogFormats == {"text", "json", "structured"}

FormatConfigs ==
  {[logFile |-> LogPath, logFormat |-> f, colorize |-> c, timestamps |-> t]
     : f \in LogFormats, c \in BOOLEAN, t \in BOOLEAN}

InitFormat == \E user \in FormatConfigs : Construct(user, 0)

SetFormatterCall == SetFormatter(UserFormatter)

LogFormat ==
  /\ Len(hist) < FormatCalls
  /\ \E level \in {"INFO", "ERROR"} : Log(level)

SetConfigFormat ==
  \/ \E f \in LogFormats : SetConfig([logFormat |-> f])
  \/ \E c \in BOOLEAN : SetConfig([colorize |-> c])
  \/ \E t \in BOOLEAN : SetConfig([timestamps |-> t])

NextFormat ==
  \/ SetFormatterCall
  \/ LogFormat
  \/ SetConfigFormat
  \/ \E s \in DOMAIN streams : StreamOpen(s)
  \/ \E s \in DOMAIN streams : StreamWrite(s)

SpecFormat == InitFormat /\ [][NextFormat]_vars

\* { ...a, ...b }
spread(a, b) ==
  [k \in DOMAIN a \cup DOMAIN b |-> IF k \in DOMAIN b THEN b[k] ELSE a[k]]

\* createStructuredLogger(serviceName, version, config)
createStructuredLogger(serviceName, version, user) ==
  ConstructWith(spread([logFormat |-> "json", timestamps |-> TRUE], user),
                serviceName, ServiceFormatter(serviceName, version),
                [EmptyWorld EXCEPT !.files = Leftover(0)])

\* a service logger and the request loggers derived from it
ServiceConfigs ==
  {[logFile |-> LogPath, colorize |-> c] : c \in BOOLEAN}
    \cup {[logFile |-> LogPath, logFormat |-> "text"]}

InitService ==
  \E serviceName \in {"user-service", "api"}, version \in {"1.2.3", "2.0.0"},
     user \in ServiceConfigs : createStructuredLogger(serviceName, version, user)

LogService ==
  /\ Len(hist) < ServiceCalls
  /\ \E level \in {"INFO", "ERROR"} : Log(level)

ChildService == \E p \in {0} \cup DOMAIN children : Child(p, "req")

ChildLogService ==
  /\ Len(hist) < ServiceCalls
  /\ \E k \in DOMAIN children : ChildLog(k, "INFO")

NextService == LogService \/ ChildService \/ ChildLogService

SpecService == InitService /\ [][NextService]_vars

\* structured arguments: every heap of MaxObjs objects of at most MaxFields properties,
\* a property holding a string or a reference to an object of the heap
Objects == 1..MaxObjs
Properties == UNION {[1..n -> {0} \cup Objects] : n \in 0..MaxFields}
Heaps == [Objects -> Properties]

ArgLists ==
  {<<0, v>> : v \in Objects} \cup {<<v, u>> : v \in Objects, u \in Objects}

CircularConfigs ==
  {[logFile |-> LogPath, logFormat |-> f] : f \in {"text", "json"}}

InitCircular == \E user \in CircularConfigs : Construct(user, 0)

LogStructured ==
  /\ hist = <<>>
  /\ \E heap \in Heaps, vals \in ArgLists :
       LogWith("INFO", World, [heap |-> heap, vals |-> vals, from |-> "caller"])

LogAfter ==
  /\ hist # <<>>
  /\ Len(hist) < CircularCalls
  /\ Log("INFO")

NextCircular ==
  \/ LogStructured
  \/ LogAfter
  \/ \E s \in DOMAIN streams : StreamOpen(s)
  \/ \E s \in DOMAIN streams : StreamWrite(s)

SpecCircular == InitCircular /\ [][NextCircular]_vars

\* rotation by size under the level gate: emitted and filtered calls, file logging
\* enabled and disabled
RotateConfigs ==
  {[logFile |-> LogPath, async |-> a, bufferSize |-> MaxSize, maxFileSize |-> m,
    maxFiles |-> 1, disableFileLogging |-> d]
     : a \in BOOLEAN, m \in 1..MaxSize, d \in BOOLEAN}

InitRotate == \E user \in RotateConfigs, pre \in 0..1 : Construct(user, pre)

LogRotate ==
  /\ Len(hist) < SizeCalls
  /\ \E level \in {"INFO", "TRACE"} : Log(level)

NextRotate ==
  \/ LogRotate
  \/ \E b \in DOMAIN buffers : TimerFire(b)
  \/ \E s \in DOMAIN streams : StreamOpen(s)
  \/ \E s \in DOMAIN streams : StreamWrite(s)
  \/ \E s \in DOMAIN streams : StreamFinish(s)

SpecRotate == InitRotate /\ [][NextRotate]_vars

\* reconfiguration that keeps the path: async, bufferSize and the gate change while
\* entries are queued and a timer is armed
FramePartials ==
  {[async |-> a] : a \in BOOLEAN} \cup {[bufferSize |-> n] : n \in 1..MaxSize}
    \cup {[logFile |-> LogPath, minLevel |-> l] : l \in {"DEBUG", "WARN"}}

InitFrame ==
  \E a \in BOOLEAN :
    Construct([logFile |-> LogPath, async |-> a, bufferSize |-> MaxSize], 0)

SetConfigFrame == \E partial \in FramePartials : SetConfig(partial)

LogFrame ==
  /\ Len(hist) < FrameCalls
  /\ Log("INFO")

NextFrame ==
  \/ SetConfigFrame
  \/ LogFrame
  \/ \E b \in DOMAIN buffers : TimerFire(b)
  \/ \E s \in DOMAIN streams : StreamOpen(s)
  \/ \E s \in DOMAIN streams : StreamWrite(s)

SpecFrame == InitFrame /\ [][NextFrame]_vars

\* retention in a directory that holds another log file: app.log rotates next to
\* app-errors.log
Directory(pre) == Leftover(pre) \o <<NewFile(LiveName(ErrorsPath), 0)>>

InitCleanup ==
  \E k \in 1..MaxSize, pre \in 0..1 :
    ConstructIn([logFile |-> LogPath, maxFileSize |-> 1, maxFiles |-> k],
                [EmptyWorld EXCEPT !.files = Directory(pre)])

NextCleanup ==
  \/ LogSize
  \/ RotateCall
  \/ \E s \in DOMAIN streams : StreamOpen(s)
  \/ \E s \in DOMAIN streams : StreamWrite(s)
  \/ \E s \in DOMAIN streams : StreamFinish(s)
  \/ Tick

SpecCleanup == InitCleanup /\ [][NextCleanup]_vars

\* clearLogFile() among log calls, with and without a buffer
InitClear ==
  \E a \in BOOLEAN, pre \in 0..1 :
    Construct([logFile |-> LogPath, async |-> a, bufferSize |-> MaxSize], pre)

LogClear ==
  /\ Len(hist) < ClearCalls
  /\ Log("INFO")

ClearCall ==
  /\ Len(hist) < ClearCalls
  /\ \E op \in {"none", "truncate"} : ClearLogFileIn([World EXCEPT !.fail = op])

NextClear ==
  \/ LogClear
  \/ ClearCall
  \/ \E b \in DOMAIN buffers : TimerFire(b)
  \/ \E s \in DOMAIN streams : StreamOpen(s)
  \/ \E s \in DOMAIN streams : StreamWrite(s)

SpecClear == InitClear /\ [][NextClear]_vars

\* the queue of a LogBuffer under add, flush and its timer, for every bufferSize the
\* constructor lets through
InitQueue ==
  \E n \in {NaN} \cup 1..MaxSize, pre \in 0..1 :
    Construct([logFile |-> LogPath, async |-> TRUE, bufferSize |-> n,
               maxFileSize |-> MaxSize, maxFiles |-> 1], pre)

SpecQueue == InitQueue /\ [][NextAgain]_vars

\* createEnvironmentLogger(environment), "" standing for an argument or a NODE_ENV that
\* is not set
createEnvironmentLogger(environment, nodeEnv) ==
  LET env == IF environment # "" THEN environment
             ELSE IF nodeEnv # "" THEN nodeEnv ELSE "development"
  IN Construct([environment |-> env,
                timestamps |-> TRUE,
                colorize |-> env # "production",
                logFormat |-> IF env = "production" THEN "json" ELSE "text",
                mode |-> IF env = "development" THEN "debug" ELSE "normal",
                minLevel |-> IF env = "production" THEN "INFO" ELSE "DEBUG"], 0)

\* the environment loggers: every environment named by the argument or by NODE_ENV
Environments == {"", "development", "test", "production", "staging"}

InitEnvironment ==
  \E environment \in Environments, nodeEnv \in Environments :
    createEnvironmentLogger(environment, nodeEnv)

LogEnvironment ==
  /\ Len(hist) < EnvironmentCalls
  /\ \E level \in Levels : Log(level)

NextEnvironment == LogEnvironment \/ IsLevelEnabledCall

SpecEnvironment == InitEnvironment /\ [][NextEnvironment]_vars

(* ------------------------------- claims -------------------------------- *)
Calls == DOMAIN hist
Linked == {i \in DOMAIN files : files[i].linked}
Occurs(seq, id) == Cardinality({k \in DOMAIN seq : seq[k] = id})
OnDisk(id) == \E i \in Linked : id \in Range(files[i].content)
Queued(id) ==
  \/ \E b \in DOMAIN buffers : id \in Range(buffers[b].buffer)
  \/ \E s \in DOMAIN streams : id \in Range(Flatten(streams[s].pending))
Copies(id) ==
  LET all == Flatten([i \in DOMAIN files |-> files[i].content])
             \o Flatten([b \in DOMAIN buffers |-> buffers[b].buffer])
             \o Flatten([k \in DOMAIN streams |-> Flatten(streams[k].pending)])
  IN Occurs(all, id)
IsLogOf(level) == Len(hist') = Len(hist) + 1 /\ hist'[Len(hist')].level = level
NothingProduced ==
  console' = console /\ files' = files /\ streams' = streams /\ buffers' = buffers

C1_FilteredAsStated(cfg, level) ==
  \/ cfg.mode = "silent"
  \/ level \notin cfg.levels
  \/ LOG_LEVELS[level] < LOG_LEVELS[cfg.minLevel]

C1_Filtered(cfg, level) ==
  \/ cfg.mode = "silent"
  \/ level \notin cfg.levels
  \/ /\ LOG_LEVELS[level] < LOG_LEVELS[cfg.minLevel]
     /\ ~(level = "TRACE" /\ cfg.mode \in {"verbose", "debug"})

\* C1 as stated: a log call made in mode silent, at a level outside the allow-set, or
\* at a level ranked below minLevel prints no console line and produces no file line.
C1_Original ==
  [][\A level \in Levels :
       IsLogOf(level) /\ C1_FilteredAsStated(config, level) => NothingProduced]_vars

\* C1 as amended: a log call made in mode silent, at a level outside the allow-set, or
\* at a level ranked below minLevel, TRACE in mode verbose or debug excepted, prints no
\* console line and produces no file line (nothing queued, nothing written).
C1_FilteredCallsProduceNothing ==
  [][\A level \in Levels :
       IsLogOf(level) /\ C1_Filtered(config, level) => NothingProduced]_vars

\* a WARN call made with minLevel ERROR, in mode normal with WARN allowed: nothing came out
C1_Witness ==
  /\ Len(hist) = 1 /\ hist[1].level = "WARN" /\ ~hist[1].emitted
  /\ config.minLevel = "ERROR" /\ config.mode = "normal" /\ "WARN" \in config.levels
  /\ console = <<>> /\ streams[1].pending = <<>>

\* C2: every emitted call prints exactly one console line and, with file logging on,
\* its one file line is written or still on its way: never discarded, never doubled.
C2_ExactlyOneLine ==
  \A id \in Calls :
    /\ Occurs(console, id) = (IF hist[id].emitted THEN 1 ELSE 0)
    /\ hist[id].filed => id \notin dropped /\ Copies(id) <= 1

\* C3: a rotation finds nothing queued in the buffer when it ends the stream: whatever
\* was queued had been written to the stream before.
C3_RotationFlushesFirst == \A r \in DOMAIN rots : rots[r].stranded = <<>>

C4_Ids(i) == {id \in Range(files[i].content) : id # 0}
C4_Before(i, j) ==
  /\ files[i].name.ts # 0
  /\ files[j].name.ts = 0 \/ files[i].name.ts < files[j].name.ts

\* C4: the lines on disk, archives in rotation order and then the live file, are in the
\* order of the calls that made them.
C4_FileOrderIsCallOrder ==
  /\ \A i \in Linked : \A k, l \in DOMAIN files[i].content :
       k < l /\ files[i].content[k] # 0 /\ files[i].content[l] # 0
         => files[i].content[k] < files[i].content[l]
  /\ \A i, j \in Linked :
       C4_Before(i, j) => \A a \in C4_Ids(i), b \in C4_Ids(j) : a < b

\* C5 as stated: a file write made once the node has written maxFileSize bytes or more
\* since the last rotation rotates before it appends.
C5_Original ==
  \A id \in Calls :
    hist[id].filed /\ hist[id].before >= config.maxFileSize => hist[id].rotated

C5_DiskSize ==
  IF existsSync(files, LogPath)
  THEN Len(files[FileAt(files, LiveName(LogPath))].content)
  ELSE -1

\* C5 as amended: a file write made while the live file holds maxFileSize bytes or more
\* on disk rotates before it appends; bytes still queued do not count.
C5_RotatesOnceLimitOnDisk ==
  [][\A level \in Levels :
       /\ IsLogOf(level)
       /\ hist'[Len(hist')].filed
       /\ C5_DiskSize >= config.maxFileSize
       => hist'[Len(hist')].rotated]_vars

\* the second call found the first one's line on disk, size = maxFileSize = 1, and
\* rotated: the archive holds line 1
C5_Witness ==
  /\ config.maxFileSize = 1
  /\ \E r \in DOMAIN rots :
       /\ rots[r].trigger = 2 /\ hist[2].rotated
       /\ \E i \in Linked : files[i].name.ts # 0 /\ files[i].content = <<1>>

C6_LiveIds ==
  LET i == FileAt(files, LiveName(LogPath))
  IN IF i = 0 THEN {} ELSE C4_Ids(i)

C7_Min(a, b) == IF a < b THEN a ELSE b

\* C7: after every cleanup at most maxFiles archives remain and no deleted one is newer
\* (by mtime) than a kept one; after n rotations exactly min(n, maxFiles) archives remain.
C7_RetentionKeepsNewest ==
  /\ \A r \in DOMAIN rots :
       /\ Cardinality(rots[r].cleaned.kept) <= config.maxFiles
       /\ \A k \in rots[r].cleaned.kept, d \in rots[r].cleaned.deleted : d <= k
  /\ Cardinality(Archives(files, LogPath)) = C7_Min(Len(rots), config.maxFiles)

ClosePc(c) == IF c \in DOMAIN closes THEN closes[c].pc ELSE "none"

\* C8: every close() resolves, by the stream's end or by its timeout, even when the
\* stream never completes; a close() that its timeout resolved leaves the stream it
\* ended destroyed.
C8_CloseAlwaysResolves ==
  /\ \A c \in 1..MaxCloses : [](ClosePc(c) # "none" => <>(ClosePc(c) = "done"))
  /\ [](\A c \in DOMAIN closes :
         closes[c].pc = "done" /\ closes[c].how = "timeout"
           => streams[closes[c].stream].destroyed)

\* C9: when a flush() has resolved, every line that was queued in the buffer when it
\* was called has been taken by the stream.
C9_FlushHandsOverTheQueue ==
  \A f \in DOMAIN flushes : flushes[f].pc = "done" => flushes[f].refused = {}

\* C10: a log call made after close() was called prints nothing and writes nothing.
C10_NothingAfterClose ==
  \A id \in Calls :
    hist[id].closed => id \notin Range(console) /\ ~OnDisk(id) /\ ~Queued(id)

\* C11: a LogBuffer that was closed stays empty and arms no timer, whatever is added.
C11_AddAfterCloseIgnored ==
  \A c \in DOMAIN closes :
    closes[c].buffer # 0 =>
      /\ buffers[closes[c].buffer].buffer = <<>>
      /\ buffers[closes[c].buffer].timer = "null"

\* C16: once a rotation has replaced the buffer, no flush timer of the replaced buffer
\* is still armed.
C16_NoTimerLeftBehind ==
  rots # <<>> => \A b \in DOMAIN buffers : b # logBuffer => buffers[b].timer # "armed"

\* C12: a child's config is the config its parent had when child() was called, and
\* no later step, a setConfig or a setLevel of the parent included, changes it; the
\* child's log calls are gated by that snapshot.
C12_ChildKeepsSnapshot ==
  [][/\ \A k \in DOMAIN children : children'[k].config = children[k].config
     /\ Len(children') > Len(children) =>
          children'[Len(children')].config = NodeConfig(children'[Len(children')].parent)
     /\ \A level \in Levels :
          IsLogOf(level) /\ hist'[Len(hist')].node # 0 =>
            hist'[Len(hist')].emitted =
              logPrints(children[hist'[Len(hist')].node].config, level)]_vars

\* the root was reconfigured after child() and the child, still on its snapshot, let
\* through a line the root would now drop
C12_Witness ==
  /\ children # <<>> /\ children[1].config # config
  /\ \E id \in Calls :
       /\ hist[id].node = 1 /\ hist[id].emitted
       /\ ~logPrints(config, hist[id].level)

C14_Positive(n) == n # NaN /\ n > 0

\* C14: after the constructor and after every setConfig, maxFileSize, maxFiles and
\* bufferSize are positive and minLevel is one of the seven levels.
C14_ConfigStaysValid ==
  /\ C14_Positive(config.maxFileSize)
  /\ C14_Positive(config.maxFiles)
  /\ C14_Positive(config.bufferSize)
  /\ config.minLevel \in Levels

\* C15: a line logged after setConfig changed logFile is not lost and is not written
\* to the old path.
C15_LinesFollowTheNewPath ==
  \A id \in Calls :
    hist[id].filed /\ hist[id].path = OtherPath =>
      /\ id \notin dropped
      /\ \A i \in Linked : files[i].name.path = LogPath => id \notin Range(files[i].content)

C20_Rank(level) ==
  CASE level = "TRACE" -> 0 [] level = "DEBUG" -> 1 [] level = "INFO" -> 2
    [] level = "SUCCESS" -> 2 [] level = "WARN" -> 3 [] level = "ERROR" -> 4
    [] level = "FATAL" -> 5

C20_Decision(cfg, level) ==
  IF cfg.mode = "silent" THEN FALSE
  ELSE IF level \notin cfg.levels THEN FALSE
  ELSE IF level = "TRACE" THEN cfg.mode \in {"verbose", "debug"}
  ELSE C20_Rank(level) >= C20_Rank(cfg.minLevel)

C20_Asked == lastAnswer' # lastAnswer

C19_FatalFlushes == {f \in DOMAIN flushes : flushes[f].then = "exit"}

C17_NoFailureEscapes ==
  /\ ~uncaught
  /\ exitCode = 0
  /\ \A id \in Calls : hist[id].emitted => id \in Range(console)

C18_Diagnostic(op) ==
  CASE op = "stat" -> "File rotation check error"
    [] op = "rename" -> "Failed to rotate log file"
    [] op = "cleanup" -> "Failed to cleanup old log files"

\* C18: a failure of the rotation check, of the rotation or of the archive cleanup is
\* reported by a diagnostic on stderr and never through the logger: no console line, no
\* file write (queued, written or refused) comes from inside the failing operation.
C18_FailuresGoToStderr ==
  /\ \A id \in Calls :
       hist[id].failed \in {"stat", "rename", "cleanup"} =>
         C18_Diagnostic(hist[id].failed) \in Range(stderr)
  /\ NestedId \notin Range(console)
  /\ NestedId \notin dropped
  /\ Copies(NestedId) = 0

\* C21: SUCCESS ranks with INFO: where both levels are in the allow-set a success()
\* call prints iff an info() call made in its place would, and with minLevel WARN, ERROR
\* or FATAL a success() call prints nothing and files nothing.
C21_SuccessRanksWithInfo ==
  [][IsLogOf("SUCCESS") =>
       /\ {"INFO", "SUCCESS"} \subseteq config.levels =>
            ((console' # console) <=>
               (shouldLog(config, "INFO") /\ shouldLogForMode(config, "INFO")))
       /\ config.minLevel \in {"WARN", "ERROR", "FATAL"} => NothingProduced]_vars

\* success() was called in mode normal with minLevel WARN and both levels allowed:
\* nothing came out
C21_Witness ==
  /\ Len(hist) = 1 /\ hist[1].level = "SUCCESS" /\ ~hist[1].emitted
  /\ config.minLevel = "WARN" /\ config.mode = "normal"
  /\ {"INFO", "SUCCESS"} \subseteq config.levels
  /\ console = <<>> /\ streams[1].pending = <<>>

C22_Default(cfg) ==
  cfg.minLevel = getDefaultConfig.minLevel /\ cfg.levels = getDefaultConfig.levels

\* C22: with the default minLevel and allow-set, a call prints nothing in mode silent,
\* a TRACE or DEBUG call prints nothing in mode normal, mode verbose prints DEBUG calls
\* besides those of the levels from INFO up, and mode debug prints calls of all levels.
C22_ModesAsDocumented ==
  [][\A level \in Levels :
       IsLogOf(level) /\ C22_Default(config) =>
         /\ config.mode = "silent" => console' = console
         /\ config.mode = "normal" /\ level \in {"TRACE", "DEBUG"} => console' = console
         /\ config.mode = "normal" /\ level \notin {"TRACE", "DEBUG"} => console' # console
         /\ config.mode = "verbose" /\ level # "TRACE" => console' # console
         /\ config.mode = "debug" => console' # console]_vars

\* the queue that the add() of a log call found: empty when the call rotated first and
\* so added to a new buffer
C23_Found == IF logBuffer' = logBuffer THEN buffers[logBuffer].buffer ELSE <<>>

C23_Stream == buffers'[logBuffer'].writeStream

C23_Written ==
  IF C23_Stream \in DOMAIN streams THEN streams[C23_Stream].pending ELSE <<>>

\* C23: with async buffering and bufferSize B, an add() that brings the queue to B lines
\* hands the whole queue to the stream within the call, as one batch in insertion order,
\* and leaves the queue empty with no timer armed; an add() that leaves the queue
\* shorter than B writes nothing, keeps the lines queued and leaves a timer armed.
C23_AddFlushesAtSize ==
  [][\A level \in Levels :
       IsLogOf(level) /\ hist'[Len(hist')].filed /\ logBuffer' # 0 =>
         IF Len(C23_Found) + 1 >= buffers'[logBuffer'].maxSize
         THEN /\ buffers'[logBuffer'].buffer = <<>>
              /\ buffers'[logBuffer'].timer = "null"
              /\ streams'[C23_Stream].pending =
                   Append(C23_Written, Append(C23_Found, Len(hist')))
         ELSE /\ buffers'[logBuffer'].buffer = Append(C23_Found, Len(hist'))
              /\ buffers'[logBuffer'].timer = "armed"
              /\ streams'[C23_Stream].pending = C23_Written]_vars

\* the second line of a buffer of size 2 has just been added: both lines are in the
\* stream as one batch, the queue is empty and no timer is armed
C23_Witness ==
  /\ logBuffer # 0 /\ buffers[logBuffer].maxSize = 2
  /\ buffers[logBuffer].buffer = <<>> /\ buffers[logBuffer].timer = "null"
  /\ \E k \in DOMAIN streams[fileWriteStream].pending :
       Len(streams[fileWriteStream].pending[k]) = 2

C24_IsFlush == Len(flushes') = Len(flushes) + 1 /\ hist' = hist

C24_Queue == IF logBuffer = 0 THEN <<>> ELSE buffers[logBuffer].buffer

C24_InStreams(id) ==
  Occurs(Flatten([k \in DOMAIN streams' |-> Flatten(streams'[k].pending)]), id)

\* C24: flush() is idempotent: on an empty queue it writes nothing and changes neither
\* the buffer nor the stream; on a queue with lines it writes them as one batch, empties
\* the queue and cancels the timer, so that a second flush() in a row finds the queue
\* empty and every line has been written exactly once.
C24_FlushIdempotent ==
  [][C24_IsFlush =>
       IF C24_Queue = <<>>
       THEN buffers' = buffers /\ streams' = streams /\ files' = files
            /\ dropped' = dropped
       ELSE /\ buffers'[logBuffer].buffer = <<>>
            /\ buffers'[logBuffer].timer = "null"
            /\ streams'[fileWriteStream].pending =
                 Append(streams[fileWriteStream].pending, C24_Queue)
            /\ \A id \in Range(C24_Queue) : C24_InStreams(id) = 1]_vars

\* one line was queued, flush() was called twice in a row: the first call took the line,
\* the second found nothing, and the line exists once
C24_Witness ==
  /\ Len(hist) = 1 /\ Len(flushes) = 2
  /\ flushes[1].queued = {1} /\ flushes[2].queued = {}
  /\ Copies(1) = 1

C25_NoQueue == logBuffer' = 0 /\ buffers' = <<>>

C25_OnDiskAfter(id) ==
  \E i \in DOMAIN files' : files'[i].linked /\ id \in Range(files'[i].content)

\* C25: with async buffering disabled there is never a queue nor a flush timer, and the
\* file line of an emitted call is in the file when the call returns.
C25_SyncAppendsAtOnce ==
  [][\A level \in Levels :
       IsLogOf(level) /\ hist'[Len(hist')].filed /\ ~config.async =>
         C25_NoQueue /\ C25_OnDiskAfter(Len(hist'))]_vars

C26_IsClose == Len(closes') = Len(closes) + 1

C26_NoCall == hist' = hist /\ Len(flushes') = Len(flushes) /\ Len(closes') = Len(closes)

\* C26: flush() and close() cancel the pending flush timer of the buffer: right after
\* either no timer is armed for it; a timer is armed only over queued lines, and a queue
\* is emptied outside a call only by a timer that was armed, never by a cancelled one.
C26_TimerCancelled ==
  /\ [](\A b \in DOMAIN buffers : buffers[b].timer = "armed" => buffers[b].buffer # <<>>)
  /\ [][/\ (C24_IsFlush \/ C26_IsClose) /\ logBuffer # 0 =>
            buffers'[logBuffer].timer = "null"
        /\ C26_NoCall =>
            \A b \in DOMAIN buffers :
              buffers[b].buffer # <<>> /\ buffers'[b].buffer = <<>> =>
                buffers[b].timer = "armed"]_vars

\* flush() was called with one line queued under an armed timer (bufferSize 2): the line
\* went to the stream and no timer is armed
C26_Witness ==
  /\ Len(hist) = 1 /\ Len(flushes) = 1 /\ flushes[1].queued = {1}
  /\ logBuffer # 0 /\ buffers[logBuffer].maxSize > 1
  /\ buffers[logBuffer].timer = "null" /\ buffers[logBuffer].buffer = <<>>

C27_Nodes == {0} \cup DOMAIN children

C27_Stream(p) == IF p = 0 THEN fileWriteStream ELSE children[p].fws

C27_Buffer(p) == IF p = 0 THEN logBuffer ELSE children[p].lb

\* C27: every logger with file logging on holds a stream, and a buffer if async, and no
\* two loggers, a parent and its child in particular, hold the same stream or buffer.
C27_OwnStreamAndBuffer ==
  /\ \A p \in C27_Nodes :
       /\ NodeConfig(p).logFile # "" => C27_Stream(p) # 0
       /\ NodeConfig(p).logFile # "" /\ NodeConfig(p).async => C27_Buffer(p) # 0
  /\ \A p, q \in C27_Nodes :
       p # q =>
         /\ C27_Stream(p) # 0 => C27_Stream(p) # C27_Stream(q)
         /\ C27_Buffer(p) # 0 => C27_Buffer(p) # C27_Buffer(q)

\* an async root, its child and its grandchild hold three streams and three buffers, and
\* a line logged on the child is queued in the child's buffer or stream, nowhere else
C27_Witness ==
  /\ Len(children) = 2 /\ children[2].parent = 1 /\ config.async
  /\ Cardinality({C27_Stream(p) : p \in C27_Nodes}) = 3
  /\ Cardinality({C27_Buffer(p) : p \in C27_Nodes}) = 3
  /\ \E id \in Calls :
       /\ hist[id].node = 1 /\ hist[id].filed
       /\ \/ id \in Range(buffers[children[1].lb].buffer)
          \/ id \in Range(Flatten(streams[children[1].fws].pending))

\* C28: once setFormatter(f) has been called, the console text and the file text of
\* every entry the logger emits afterwards are both exactly f(entry), whatever
\* logFormat, colorize and timestamps are.
C28_F(call) ==
  applyFormatter(UserFormatter,
                 createLogEntry(rootNamespace, call.level, formatMessage(PlainArgs)))

C28_FormatterOverridesBoth ==
  [][(customFormatter.kind = "user" /\ Len(hist') > Len(hist)) =>
       LET call == hist'[Len(hist')]
       IN /\ call.emitted => call.consoleText = C28_F(call)
          /\ call.filed => call.fileText = C28_F(call)]_vars

C28_Witness ==
  /\ customFormatter.kind = "user"
  /\ config.logFormat = "json" /\ config.colorize /\ config.timestamps
  /\ \E id \in Calls :
       /\ hist[id].emitted /\ hist[id].filed
       /\ Head(hist[id].consoleText) = "f(" /\ hist[id].fileText = hist[id].consoleText
       /\ \E f \in DOMAIN files : id \in Range(files[f].content)

\* C30: every line emitted by a logger made by createStructuredLogger(service, version),
\* and by every child derived from it with child(), carries the service name and the
\* version.
C30_Carries(text) ==
  /\ ("service=" \o customFormatter.service) \in Range(text)
  /\ ("version=" \o customFormatter.version) \in Range(text)

C30_EveryLineCarriesService ==
  \A id \in Calls :
    /\ hist[id].emitted => C30_Carries(hist[id].consoleText)
    /\ hist[id].filed => C30_Carries(hist[id].fileText)

\* C29: logging a structured argument that contains a circular reference never raises:
\* the back-reference is replaced by a sentinel in the rendered text, the call emits its
\* console line and its file line normally, and later calls are unaffected.
RECURSIVE C29_Render(_, _, _)
\* the rendering the claim describes: an object met again below itself is the sentinel
C29_Render(heap, v, path) ==
  IF v = 0 THEN <<"x">>
  ELSE IF v \in path THEN <<"[Circular]">>
  ELSE <<"{">>
       \o Flatten([i \in DOMAIN heap[v] |-> C29_Render(heap, heap[v][i], path \cup {v})])
       \o <<"}">>

RECURSIVE C29_Expanded(_, _, _)
\* the objects that rendering opens, one entry for each time it opens one
C29_Expanded(heap, v, path) ==
  IF v = 0 \/ v \in path THEN <<>>
  ELSE <<v>>
       \o Flatten([i \in DOMAIN heap[v] |-> C29_Expanded(heap, heap[v][i], path \cup {v})])

\* every repeated reference below v is a back-reference
C29_OnlyBackReferences(heap, v) ==
  Len(C29_Expanded(heap, v, {})) = Cardinality(Range(C29_Expanded(heap, v, {})))

C29_Circular(args) ==
  \E i \in DOMAIN args.vals : "[Circular]" \in Range(C29_Render(args.heap, args.vals[i], {}))

C29_Message(args) ==
  Flatten([i \in DOMAIN args.vals |-> C29_Render(args.heap, args.vals[i], {})])

C29_CircularIsRendered ==
  /\ uncaught = FALSE /\ exitCode = 0 /\ stderr = <<>>
  /\ \A id \in Calls :
       LET call == hist[id]
           entry == createLogEntry("", call.level, C29_Message(call.args))
       IN /\ call.emitted /\ id \in Range(console)
          /\ call.filed /\ call.failed = "none" /\ id \notin dropped
          /\ "[Serialization Error]" \notin Range(call.consoleText) \cup Range(call.fileText)
          /\ C29_Circular(call.args) =>
                /\ "[Circular]" \in Range(call.consoleText)
                /\ "[Circular]" \in Range(call.fileText)
          /\ (\A i \in DOMAIN call.args.vals :
                 C29_OnlyBackReferences(call.args.heap, call.args.vals[i])) =>
                /\ call.consoleText = formatConsoleOutput(config, NoFormatter, "", entry)
                /\ call.fileText = formatFileOutput(config, NoFormatter, entry)

C29_Witness ==
  /\ Len(hist) = 2
  /\ hist[1].args.heap[1] = <<2>> /\ hist[1].args.heap[2] = <<1>>
  /\ hist[1].args.vals = <<0, 1>>
  /\ config.logFormat = "json"
  /\ hist[1].fileText =
       <<"{", "timestamp", "level=INFO", "message=", "x", "{", "{", "[Circular]", "}", "}",
         "}", "\n">>
  /\ hist[2].args = PlainArgs
  /\ console = <<1, 2>>
  /\ \E f \in DOMAIN files : files[f].content = <<1, 2>>

\* a log call at this level, made now, prints a console line
C39_WouldPrint(level) == ENABLED (Log(level) /\ console' # console)

\* C39: isLevelEnabled(L) returns true iff a log call at level L made in the same state
\* would be emitted (its console line printed), for every level, mode, allow-set and
\* minLevel; calling it changes no state.
C39_AnswerIsWhatLogDoes ==
  [][lastAnswer' # lastAnswer =>
       /\ \E level \in Levels :
            lastAnswer' = [level |-> level, answer |-> C39_WouldPrint(level)]
       /\ UNCHANGED <<config, files, streams, buffers, fileWriteStream, logBuffer,
                      console, clock, closes, flushes, hist, rots, dropped, uncaught,
                      sinceRot, children, exitCode, stderr, rootNamespace,
                      customFormatter>>]_vars

\* TRACE asked in mode normal with minLevel TRACE was answered false, and the TRACE call
\* made under that configuration printed nothing
C39_Witness ==
  /\ config.mode = "normal" /\ config.minLevel = "TRACE" /\ "TRACE" \in config.levels
  /\ lastAnswer = [level |-> "TRACE", answer |-> FALSE]
  /\ Len(hist) = 1 /\ hist[1].level = "TRACE" /\ console = <<>>

\* C32: createEnvironmentLogger(env) yields these configs: development gives mode debug,
\* colors enabled and text format; test gives mode normal and colors disabled;
\* production gives JSON format, colors disabled and minLevel INFO.
C32_EnvironmentDefaults ==
  /\ config.environment = "development" =>
       config.mode = "debug" /\ config.colorize /\ config.logFormat = "text"
  /\ config.environment = "test" =>
       config.mode = "normal" /\ ~config.colorize
  /\ config.environment = "production" =>
       config.logFormat = "json" /\ ~config.colorize /\ config.minLevel = "INFO"

\* C34: between operations of a LogBuffer, after any sequence of add(), flush() and
\* flush-timer firings: the flush timer is armed iff the queue is non-empty, the queue
\* length is strictly below the buffer's size limit, and at most one timer is armed.
C34_QueueAndTimer ==
  \A b \in DOMAIN buffers :
    /\ buffers[b].timer = "armed" <=> buffers[b].buffer # <<>>
    /\ buffers[b].timer \in {"null", "armed"}
    /\ buffers[b].maxSize # NaN /\ Len(buffers[b].buffer) < buffers[b].maxSize

\* the size of the live file on disk, -1 when there is none
C33_DiskSize ==
  IF existsSync(files, config.logFile)
  THEN Len(files[FileAt(files, LiveName(config.logFile))].content)
  ELSE -1

\* C33: a log call rotates the log file iff, at the moment of its check, the call is
\* emitted with file logging enabled, the live file exists, and its size on disk is
\* >= maxFileSize (equality triggers rotation); a log call never rotates a file whose
\* size on disk is below maxFileSize, and a filtered call never checks or rotates.
C33_RotatesIffDue ==
  [][Len(hist') > Len(hist) =>
       LET call == hist'[Len(hist')]
       IN /\ (rots' # rots) <=>
               /\ call.emitted /\ config.logFile # "" /\ ~config.disableFileLogging
               /\ existsSync(files, config.logFile)
               /\ C33_DiskSize >= config.maxFileSize
          /\ C33_DiskSize < config.maxFileSize => rots' = rots
          /\ ~call.emitted => UNCHANGED <<files, streams, buffers, fileWriteStream,
                                            logBuffer, rots, stderr>>]_vars

\* a filtered call made on a file that was due did not rotate, the emitted call that
\* found exactly maxFileSize bytes on disk did, and the call after it, which found less,
\* did not
C33_Witness ==
  /\ config.maxFileSize = 1 /\ Len(hist) = 3 /\ Len(rots) = 1
  /\ Len(files[rots[1].archive].content) = 1
  /\ ~hist[1].emitted /\ ~hist[1].rotated
  /\ hist[2].emitted /\ hist[2].rotated /\ Len(rots) = 1 /\ rots[1].trigger = 2
  /\ hist[3].filed /\ ~hist[3].rotated

\* C35: no sequence of operations on a logger (log calls, flush, close, setConfig,
\* rotateLogFile, clearLogFile, flush-timer firings) ever issues write() on a stream on
\* which end() has already been called.
C35_NoWriteAfterEnd == ~uncaught

\* C36: a setConfig call that does not change logFile leaves the logger's stream, its
\* buffer, the queued entries and the armed timer unchanged: an existing buffer keeps
\* the bufferSize it was created with, and changing async neither creates nor removes
\* a buffer.
C36_SetConfigKeepsFileState ==
  [][config' # config /\ config'.logFile = config.logFile =>
       /\ UNCHANGED <<fileWriteStream, logBuffer, streams, buffers, files, closes>>
       /\ logBuffer # 0 =>
            /\ logBuffer' # 0
            /\ buffers'[logBuffer'].maxSize = buffers[logBuffer].maxSize
            /\ buffers'[logBuffer'].buffer = buffers[logBuffer].buffer
            /\ buffers'[logBuffer'].timer = buffers[logBuffer].timer
       /\ logBuffer = 0 => logBuffer' = 0]_vars

\* async was switched off and bufferSize lowered while an entry was queued: the buffer
\* is still there with its first size, its entry and its timer
C36_Witness ==
  /\ ~config.async /\ config.bufferSize = 1 /\ logBuffer # 0
  /\ buffers[logBuffer].maxSize = MaxSize
  /\ buffers[logBuffer].buffer # <<>> /\ buffers[logBuffer].timer = "armed"
  /\ Len(buffers) = 1 /\ Len(streams) = 1

\* C38: every rotation that renames the live file creates a new archive: it never
\* overwrites an archive produced by an earlier rotation of the same log file, even
\* when two rotations happen within the same clock millisecond.
C38_NoArchiveOverwritten ==
  \A r \in DOMAIN rots : ~rots[r].replaced

\* C37: the cleanup that follows a rotation deletes only archives produced by rotating
\* that same log file (names of the form <base>.<timestamp><ext>); it never deletes the
\* live file, and never deletes any other file of the directory.
C37_CleanupDeletesOnlyOwnArchives ==
  \A r \in DOMAIN rots :
    \A name \in rots[r].unlinked : name.path = config.logFile /\ name.ts # 0

\* every buffer is empty and every stream has written what it was given
C31_Quiet ==
  /\ \A b \in DOMAIN buffers : buffers[b].buffer = <<>>
  /\ \A s \in DOMAIN streams : streams[s].pending = <<>>

\* C31: clearLogFile() clears the content of the configured log file: once it has
\* returned and every pending flush has completed, the log file contains none of the
\* lines that were logged before the call.
C31_ClearedFileHoldsNothingOlder ==
  \A c \in Calls :
    /\ hist[c].args.from = "clearLogFile" /\ hist[c].failed = "none"
    /\ C31_Quiet
    => \A i \in Linked :
         files[i].name = LiveName(config.logFile) =>
           \A id \in Range(files[i].content) : id >= c

====
